---------------------------- MODULE Spec2Model ----------------------------
(***************************************************************************)
(* Model of the psi4-to-strain Fixed-Frequency-Integration pipeline of     *)
(* bh_vis (scripts/daisychain.py and its util-* predecessors).             *)
(*                                                                         *)
(* Numbers.  The scripts compute in float64 / complex128.  The model       *)
(* computes with exact rationals (records [n, d], lowest terms, d > 0) and *)
(* exact complex rationals (records [re, im, ok]); ok = FALSE is the       *)
(* non-finite value numpy produces for a division by zero (inf/nan), which *)
(* every later operation propagates.  Angular frequencies are stored in    *)
(* units of pi (omega / pi), so that 2*pi*fftfreq(n, dt) is rational; the  *)
(* filter is homogeneous in the frequency unit.  Python arrays and lists   *)
(* are sequences: Python index i is position i + 1.                        *)
(***************************************************************************)
EXTENDS Integers, Sequences, FiniteSets, TLC

-----------------------------------------------------------------------------
(* Bounds of the model *)

\* largest l for which the mode-index loop is run
MaxEll == 8

\* largest number of data lines in one mode file
MaxRows == 2

\* the values a line's time column can hold
TimeValues == {0, 1}

\* the fitted intercept c ranges over the fractions n/d, |n| <= MaxCNum, d in 1..3
MaxCNum == 4

\* in a whole run each fit returns c = n/2 with |n| <= MaxRunCNum
MaxRunCNum == 1

\* largest number of azimuth points util-psi4-FFT-to-Strain is run with
MaxAziPts == 2

\* the longest file, in lines, whose parsing into rows is explored
MaxLines == 3

\* the longest array handed to the finite-difference functions
MaxDerivLen == 5

\* phases are multiples of pi / PhaseDen
PhaseDen == 3

\* the longest arbitrary phase sequence
MaxSamples == 3

\* the longest sequence of phases growing by a constant step
MaxRampLen == 7

\* the largest numbers of modes, time samples and mesh points superposed
MaxModes == 3

MaxTimes == 2

MaxPts == 2

-----------------------------------------------------------------------------
(* Program constants *)

\* daisychain.py: ELL_MIN = 2
ELL_MIN == 2

\* daisychain.py: ELL_MAX = 8
ELL_MAX == 8

\* the readers are run with ell_max in ELL_MIN .. MaxReadEll: up to three files
MaxReadEll == ELL_MIN + 2

\* daisychain.py: CUTTOFF_FACTOR = 0.75
CUTTOFF_FACTOR == [n |-> 3, d |-> 4]

-----------------------------------------------------------------------------
(* Exact rational arithmetic (float64 without rounding) *)

RECURSIVE GCD(_, _)
GCD(a, b) == IF b = 0 THEN a ELSE GCD(b, a % b)

IAbs(x) == IF x < 0 THEN -x ELSE x

\* n/d in lowest terms with a positive denominator (d # 0)
Rat(n, d) ==
  LET g == GCD(IAbs(n), IAbs(d))
      s == IF d < 0 THEN -1 ELSE 1
  IN  [n |-> (s * n) \div g, d |-> (s * d) \div g]

RInt(k) == [n |-> k, d |-> 1]
RZero == RInt(0)
ROne == RInt(1)
RAdd(a, b) == Rat(a.n * b.d + b.n * a.d, a.d * b.d)
RNeg(a) == [n |-> -a.n, d |-> a.d]
RSub(a, b) == RAdd(a, RNeg(b))
RMul(a, b) == Rat(a.n * b.n, a.d * b.d)
\* a / b for b # 0
RDiv(a, b) == Rat(a.n * b.d, a.d * b.n)
RLeq(a, b) == a.n * b.d <= b.n * a.d
RLt(a, b) == a.n * b.d < b.n * a.d
\* np.abs / np.fabs on a real
RAbs(a) == [n |-> IAbs(a.n), d |-> a.d]
RMax(a, b) == IF RLeq(a, b) THEN b ELSE a

-----------------------------------------------------------------------------
(* Exact complex arithmetic (complex128 without rounding) *)

Cx(re, im) == [re |-> re, im |-> im, ok |-> TRUE]
\* the non-finite result of a division by zero (numpy: inf/nan, no exception)
NonFinite == [re |-> RZero, im |-> RZero, ok |-> FALSE]
CZero == Cx(RZero, RZero)
COne == Cx(ROne, RZero)
\* Python's 1j
CJ == Cx(RZero, ROne)
CReal(x) == Cx(x, RZero)

CAdd(a, b) ==
  IF a.ok /\ b.ok THEN Cx(RAdd(a.re, b.re), RAdd(a.im, b.im)) ELSE NonFinite

CMul(a, b) ==
  IF a.ok /\ b.ok
    THEN Cx(RSub(RMul(a.re, b.re), RMul(a.im, b.im)),
            RAdd(RMul(a.re, b.im), RMul(a.im, b.re)))
    ELSE NonFinite

\* z ** 2
CSquare(z) == CMul(z, z)

\* 1 / z; a zero divisor gives the non-finite value
CRecip(z) ==
  IF ~z.ok \/ z = CZero
    THEN NonFinite
    ELSE LET m == RAdd(RMul(z.re, z.re), RMul(z.im, z.im))
         IN  Cx(RDiv(z.re, m), RNeg(RDiv(z.im, m)))

\* z * r for a real r
CScale(z, r) == CMul(z, CReal(r))

-----------------------------------------------------------------------------
(* daisychain.py: get_index_from_modes *)

\* a plausible slip: the "+ ell" term forgotten
get_index_from_modes_noell(ell, em, ell_min) == ell * ell + em - ell_min * ell_min

get_index_from_modes(ell, em, ell_min) == ell * ell + ell + em - ell_min * ell_min

-----------------------------------------------------------------------------
(* Mode files.  A file is the sequence of its non-comment lines            *)
(* (daisychain.py:57); a line is represented by its time column, and the   *)
(* number held by line r, column c of the file for l by the token          *)
(* Cell(l, r, c): the readers only move these numbers around.              *)

Cell(l, r, c) == [file |-> l, line |-> r, col |-> c]

Range(s) == {s[i] : i \in 1 .. Len(s)}

\* the elements of a finite set of integers in increasing order
RECURSIVE SortedSeq(_)
SortedSeq(S) ==
  IF S = {} THEN <<>>
  ELSE LET mx == CHOOSE x \in S : \A y \in S : y <= x
       IN  Append(SortedSeq(S \ {mx}), mx)

\* a plausible slip: the last line with each time is kept instead of the first
np_unique_last(times) ==
  LET values == SortedSeq(Range(times))
  IN  [values |-> values,
       index |-> [i \in 1 .. Len(values) |->
                   CHOOSE r \in 1 .. Len(times) :
                     /\ times[r] = values[i]
                     /\ \A q \in 1 .. Len(times) : times[q] = values[i] => q <= r]]

\* np.unique(x, return_index=True): the sorted distinct values and, for each,
\* the position of its first occurrence in x
np_unique(times) ==
  LET values == SortedSeq(Range(times))
  IN  [values |-> values,
       index |-> [i \in 1 .. Len(values) |->
                   CHOOSE r \in 1 .. Len(times) :
                     /\ times[r] = values[i]
                     /\ \A q \in 1 .. Len(times) : times[q] = values[i] => r <= q]]

\* np.argsort(x) with the default (unstable) sort: every ordering of the
\* positions that makes x non-decreasing; tied positions come in any order
np_argsort(times) ==
  {p \in [1 .. Len(times) -> 1 .. Len(times)] :
     /\ \A i, j \in 1 .. Len(times) : p[i] = p[j] => i = j
     /\ \A i \in 1 .. Len(times) - 1 : times[p[i]] <= times[p[i + 1]]}

\* x[index]: fancy indexing of a sequence by a sequence of positions
Take(x, index) == [i \in 1 .. Len(index) |-> x[index[i]]]

\* data[:, c] for the file of l, where rows lists the lines data holds
Column(l, rows, c) == [i \in 1 .. Len(rows) |-> Cell(l, rows[i], c)]

\* a plausible slip: the imaginary part taken from the wrong column
ComplexSeries_badimag(l, rows, real_idx) ==
  [i \in 1 .. Len(rows) |->
     [re |-> Cell(l, rows[i], real_idx), im |-> Cell(l, rows[i], real_idx + 2)]]

\* data[:, real_idx] + 1j * data[:, real_idx + 1]
ComplexSeries(l, rows, real_idx) ==
  [i \in 1 .. Len(rows) |->
     [re |-> Cell(l, rows[i], real_idx), im |-> Cell(l, rows[i], real_idx + 1)]]

\* daisychain.py:73-76: real_idx = 1; for _ in range(2*l + 1): append(...); real_idx += 2
ModesOfFile(l, rows) ==
  [k \in 1 .. (2 * l + 1) |-> ComplexSeries(l, rows, 1 + 2 * (k - 1))]

\* a plausible slip: "<" instead of "!=" in the length check
LengthMismatch_less(expected, got) == got < expected

\* consistant_length != len(time_data)
LengthMismatch(expected, got) == expected # got

\* ndarray.all(): no element is zero
np_all(x) == \A i \in 1 .. Len(x) : x[i] # 0

\* the (l, m) keys a dictionary reader has stored after the files 2 .. l
ModeKeys(lo, hi) == {k \in (lo .. hi) \X (-hi .. hi) : -k[1] <= k[2] /\ k[2] <= k[1]}

\* the file contents a reader can meet: 0 .. MaxRows data lines
FileContents == UNION {[1 .. n -> TimeValues] : n \in 0 .. MaxRows}

\* a strain file of gen-gw-main-new.py: each line is <<time, real part>>
StrainRows == TimeValues \X {0, 1}

StrainFileContents == UNION {[1 .. n -> StrainRows] : n \in 0 .. MaxRows}

\* lexicographic order of two rows, the order np.unique(axis=0) sorts by
RowLess(a, b) ==
  \E k \in 1 .. Len(a) : a[k] < b[k] /\ \A j \in 1 .. (k - 1) : a[j] = b[j]

\* np.unique(rows, axis=0): the distinct rows in lexicographic order
RECURSIVE np_unique_rows(_)
np_unique_rows(S) ==
  IF S = {} THEN <<>>
  ELSE LET mx == CHOOSE x \in S : \A y \in S : y = x \/ RowLess(y, x)
       IN  Append(np_unique_rows(S \ {mx}), mx)

\* (np.diff(h_time) > 0).all()
np_diff_positive(x) == \A i \in 1 .. Len(x) - 1 : x[i + 1] - x[i] > 0

-----------------------------------------------------------------------------
(* The FFT.  For n = 2 and n = 4 samples the n-th roots of unity are       *)
(* 1, i, -1, -i, so numpy's transforms are exact in complex rationals.     *)

FFTSizes == {2, 4}

\* exp(2*pi*i*e/n) for n in {1, 2, 4}
RootOfUnity(n, e) ==
  LET q == (e * (4 \div n)) % 4
  IN  CASE q = 0 -> COne
        [] q = 1 -> CJ
        [] q = 2 -> Cx(RNeg(ROne), RZero)
        [] q = 3 -> Cx(RZero, RNeg(ROne))

RECURSIVE CSum(_)
CSum(zs) == IF Len(zs) = 0 THEN CZero ELSE CAdd(zs[1], CSum(Tail(zs)))

\* np.fft.fft(x): X[k] = sum_n x[n] exp(-2 pi i k n / N)
np_fft(x) ==
  [k \in 1 .. Len(x) |->
     CSum([n \in 1 .. Len(x) |->
             CMul(x[n], RootOfUnity(Len(x), -((k - 1) * (n - 1))))])]

\* np.fft.ifft(X): x[n] = (1/N) sum_k X[k] exp(2 pi i k n / N)
np_ifft(X) ==
  [n \in 1 .. Len(X) |->
     CScale(CSum([k \in 1 .. Len(X) |->
                    CMul(X[k], RootOfUnity(Len(X), (k - 1) * (n - 1)))]),
            Rat(1, Len(X)))]

\* np.fft.fftfreq(n, d): [0, 1, ..., (n-1)//2, -(n//2), ..., -1] / (d*n)
np_fftfreq(n, d) ==
  [i \in 1 .. n |->
     RDiv(RInt(IF i - 1 < ((n - 1) \div 2) + 1 THEN i - 1 ELSE i - 1 - n),
          RMul(d, RInt(n)))]

\* np.fft.fftfreq(len(time_arr), time_arr[1] - time_arr[0]) * 2 * np.pi,
\* in units of pi
FreqList(time_arr) ==
  LET f == np_fftfreq(Len(time_arr), RSub(time_arr[2], time_arr[1]))
  IN  [i \in 1 .. Len(time_arr) |-> RMul(f[i], RInt(2))]

-----------------------------------------------------------------------------
(* The Fixed-Frequency-Integration filter of one frequency bin *)

\* a plausible slip: "<" instead of "<="
daisychain_in_cutoff_branch_strict(omega, freq_cutoff) ==
  RLt(RAbs(omega), RAbs(freq_cutoff))

\* daisychain.py:344  np.fabs(omega) <= np.fabs(freq_cutoff)
daisychain_in_cutoff_branch(omega, freq_cutoff) ==
  RLeq(RAbs(omega), RAbs(freq_cutoff))

\* daisychain.py:345,347  the divisor (1j * freq_cutoff) ** 2 or (1j * omega) ** 2
daisychain_divisor(omega, freq_cutoff) ==
  IF daisychain_in_cutoff_branch(omega, freq_cutoff)
    THEN CSquare(CMul(CJ, CReal(freq_cutoff)))
    ELSE CSquare(CMul(CJ, CReal(omega)))

\* daisychain.py:345,347  the factor 1 / divisor
daisychain_factor(omega, freq_cutoff) ==
  CRecip(daisychain_divisor(omega, freq_cutoff))

\* util-psi4-FFT-to-Strain.py:156  np.abs(omega) <= omega_0
util_in_cutoff_branch(omega, omega_0) == RLeq(RAbs(omega), omega_0)

\* util-psi4-FFT-to-Strain.py:157,159  (1j * omega_0)**2 or (1j * np.abs(omega))**2
util_divisor(omega, omega_0) ==
  IF util_in_cutoff_branch(omega, omega_0)
    THEN CSquare(CMul(CJ, CReal(omega_0)))
    ELSE CSquare(CMul(CJ, CReal(RAbs(omega))))

util_factor(omega, omega_0) == CRecip(util_divisor(omega, omega_0))

\* daisychain.py:279 / util-psi4-FFT-to-Strain.py:107: the fit's |c|
intercept_magnitude(c) == RAbs(c)

\* a plausible slip: the safety factor left out
freq_cutoff_of_unscaled(script, min_omega) == min_omega

\* daisychain.py:327  freq_cutoff = CUTTOFF_FACTOR * min_omega_l2m2;
\* the util scripts use omega_0 = |c| as it is
freq_cutoff_of(script, min_omega) ==
  IF script = "daisychain" THEN RMul(CUTTOFF_FACTOR, min_omega) ELSE min_omega

\* the factor the script multiplies bin omega by
filter_factor(script, omega, cutoff) ==
  IF script = "daisychain"
    THEN daisychain_factor(omega, cutoff) ELSE util_factor(omega, cutoff)

filter_divisor(script, omega, cutoff) ==
  IF script = "daisychain"
    THEN daisychain_divisor(omega, cutoff) ELSE util_divisor(omega, cutoff)

filter_in_cutoff_branch(script, omega, cutoff) ==
  IF script = "daisychain"
    THEN daisychain_in_cutoff_branch(omega, cutoff)
    ELSE util_in_cutoff_branch(omega, cutoff)

-----------------------------------------------------------------------------
(* Inputs of one integration: a uniform time grid, the psi4 samples of one *)
(* mode (a sinusoid at an FFT bin, or the sum of two), the fitted c.       *)

DtValues == {RInt(1), RInt(2)}

TimeGrid(n, dt) == [i \in 1 .. n |-> RMul(RInt(i - 1), dt)]

Amplitudes == {COne, CJ, Cx(RInt(2), RZero)}

\* A * exp(2 pi i k j / n), j = 0 .. n-1: the sinusoid of amplitude A at bin k
Sinusoid(n, A, k) == [j \in 1 .. n |-> CMul(A, RootOfUnity(n, k * (j - 1)))]

Psi4Inputs(n) ==
  {Sinusoid(n, A, k) : A \in Amplitudes, k \in 0 .. n - 1}
  \cup {[j \in 1 .. n |-> CAdd(Sinusoid(n, COne, 0)[j], Sinusoid(n, B, k)[j])] :
          B \in Amplitudes, k \in 1 .. n - 1}

\* the values the fit's intercept c takes in the model
CValues == {Rat(n, d) : n \in -MaxCNum .. MaxCNum, d \in 1 .. 3}

-----------------------------------------------------------------------------
(* Finite differences (daisychain.py:136-197).  Arrays are sequences of    *)
(* rationals; Python's a[k] is a[k + 1] here and a[-k] is a[Len(a)-k+1].   *)

\* np.zeros_like(data)
np_zeros_like(data) == [i \in 1 .. Len(data) |-> RZero]

\* a plausible slip: a one-sided difference in the interior
first_time_derivative_onesided(time, data) ==
  LET delta_t == RSub(time[2], time[1])
      n == Len(data)
  IN  [i \in 1 .. n |->
         IF i < n THEN RDiv(RSub(data[i + 1], data[i]), delta_t)
                  ELSE RDiv(RSub(data[n], data[n - 1]), delta_t)]

\* daisychain.py:153-163
first_time_derivative(time, data) ==
  LET delta_t == RSub(time[2], time[1])
      n == Len(data)
      data_dt0 == np_zeros_like(data)
      \* data_dt[1:-1] = (data[2:] - data[:-2]) / (2 * delta_t)
      data_dt1 == [i \in 1 .. n |->
                     IF 1 < i /\ i < n
                       THEN RDiv(RSub(data[i + 1], data[i - 1]), RMul(RInt(2), delta_t))
                       ELSE data_dt0[i]]
      \* data_dt[0] = (data[1] - data[0]) / delta_t
      data_dt2 == [data_dt1 EXCEPT ![1] = RDiv(RSub(data[2], data[1]), delta_t)]
      \* data_dt[-1] = (data[-1] - data[-2]) / delta_t
  IN  [data_dt2 EXCEPT ![n] = RDiv(RSub(data[n], data[n - 1]), delta_t)]

\* a plausible slip: the three-point stencil reused at the two ends
second_time_derivative_3pt(time, data) ==
  LET dt2 == RMul(RSub(time[2], time[1]), RSub(time[2], time[1]))
      n == Len(data)
      c(i) == RDiv(RAdd(RSub(data[i - 1], RMul(RInt(2), data[i])), data[i + 1]), dt2)
  IN  [i \in 1 .. n |-> IF i = 1 THEN c(2) ELSE IF i = n THEN c(n - 1) ELSE c(i)]

\* daisychain.py:181-197
second_time_derivative(time, data) ==
  LET delta_t == RSub(time[2], time[1])
      dt2 == RMul(delta_t, delta_t)
      n == Len(data)
      data_dtdt0 == np_zeros_like(data)
      \* central = data[:-2] - 2 * data[1:-1] + data[2:]
      data_dtdt1 == [i \in 1 .. n |->
                       IF 1 < i /\ i < n
                         THEN RDiv(RAdd(RSub(data[i - 1], RMul(RInt(2), data[i])),
                                        data[i + 1]), dt2)
                         ELSE data_dtdt0[i]]
      \* forward = 2 * data[0] - 5 * data[1] + 4 * data[2] - data[3]
      forward == RSub(RAdd(RSub(RMul(RInt(2), data[1]), RMul(RInt(5), data[2])),
                           RMul(RInt(4), data[3])), data[4])
      data_dtdt2 == [data_dtdt1 EXCEPT ![1] = RDiv(forward, dt2)]
      \* backward = 2 * data[-1] - 5 * data[-2] + 4 * data[-3] - data[-4]
      backward == RSub(RAdd(RSub(RMul(RInt(2), data[n]), RMul(RInt(5), data[n - 1])),
                            RMul(RInt(4), data[n - 2])), data[n - 3])
  IN  [data_dtdt2 EXCEPT ![n] = RDiv(backward, dt2)]

\* the fewest samples the function indexes without an IndexError
MinSamples(fn) == IF fn = "first_time_derivative" THEN 2 ELSE 4

\* the uniform grids t0, t0 + dt, ...
DerivDtValues == {RInt(1), RInt(2), Rat(1, 2)}

DerivGrid(n, t0, dt) == [i \in 1 .. n |-> RAdd(t0, RMul(RInt(i - 1), dt))]

\* the sampled data: any values, or a polynomial a*t^2 + b*t + c of the time
DataValues == {RInt(-1), RInt(0), RInt(2)}

Poly(a, b, c, t) == RAdd(RAdd(RMul(RInt(a), RMul(t, t)), RMul(RInt(b), t)), RInt(c))

PolyCoeffs == {-1, 0, 1, 3}

PolyData(time) ==
  {[i \in 1 .. Len(time) |-> Poly(a, b, c, time[i])] :
     a \in {0, 1, -2}, b \in PolyCoeffs, c \in {0, 1}}

-----------------------------------------------------------------------------
(* Phase unwrapping.  Phases are integers in units of pi / PhaseDen, so pi *)
(* is PI == PhaseDen and the comparisons with pi are exact.                *)

PI == PhaseDen

\* the values np.angle / np.arctan2 returns: [-pi, pi]
PhaseValues == -PI .. PI

\* a plausible slip: the wrap threshold at pi / 2
daisychain_cycles_halfpi(c, ph, last) ==
  IF 2 * IAbs(ph - last) >= PI THEN c + (IF ph > 0 THEN -1 ELSE 1) ELSE c

\* a plausible slip: the direction of the correction swapped
daisychain_cycles_swapped(c, ph, last) ==
  IF IAbs(ph - last) >= PI THEN c + (IF ph > 0 THEN 1 ELSE -1) ELSE c

\* daisychain.py:226-227
\*   if np.abs(ph - last_phase) >= np.pi: cycles += -1 if ph > 0 else 1
daisychain_cycles(c, ph, last) ==
  IF IAbs(ph - last) >= PI THEN c + (IF ph > 0 THEN -1 ELSE 1) ELSE c

\* util-psi4-FFT-integration.py:92-95 / util-psi4-FFT-to-Strain.py:79-82
\*   if phase - last_phase > np.pi: cycles -= 1
\*   if phase - last_phase < -np.pi: cycles += 1
util_cycles(c, ph, last) ==
  LET c1 == IF ph - last > PI THEN c - 1 ELSE c
  IN  IF ph - last < -PI THEN c1 + 1 ELSE c1

\* util-psi4_to_phase_amp_omega_FFI_strain_psi4check.py:134-142
\*   if np.abs(ph - last_phase) >= np.pi:
\*       if ph > 0: cycles -= 1
\*       if ph < 0: cycles += 1
psi4check_cycles(c, ph, last) ==
  IF IAbs(ph - last) >= PI
    THEN LET c1 == IF ph > 0 THEN c - 1 ELSE c
         IN  IF ph < 0 THEN c1 + 1 ELSE c1
    ELSE c

UnwrapVariants == {"daisychain", "util_integration", "util_to_strain", "psi4check"}

unwrap_cycles(variant, c, ph, last) ==
  CASE variant = "daisychain" -> daisychain_cycles(c, ph, last)
    [] variant \in {"util_integration", "util_to_strain"} -> util_cycles(c, ph, last)
    [] variant = "psi4check" -> psi4check_cycles(c, ph, last)

\* x wrapped into (-pi, pi]
Wrap(x) == ((x + PI - 1) % (2 * PI)) - PI + 1

\* the phases of a signal whose phase grows by d per sample from p0
WrappedRamp(n, p0, d) == [i \in 1 .. n |-> Wrap(p0 + (i - 1) * d)]

RampSteps == {d \in (1 - PI) .. (PI - 1) : d # 0}

PhaseInputs ==
  UNION {[1 .. n -> PhaseValues] : n \in 1 .. MaxSamples}
  \cup {WrappedRamp(n, p0, d) :
          n \in 1 .. MaxRampLen, p0 \in (1 - PI) .. PI, d \in RampSteps}

-----------------------------------------------------------------------------
(* Angle superposition (daisychain.py:365-382, animation_main.py:40-66).   *)
(* The values of the spin-weighted spherical harmonics come from the       *)
(* spherical package; they are an input here.                              *)

\* x.T of a 2-D array
Transpose(x) == [j \in 1 .. Len(x[1]) |-> [i \in 1 .. Len(x) |-> x[i][j]]]

\* a plausible slip: the last mode left out of the sum
swsh_sum_short(mode_data, sY) ==
  LET swsh_arr == Transpose(sY)
  IN  [a \in 1 .. Len(swsh_arr[1]) |->
        [t \in 1 .. Len(mode_data[1]) |->
           CSum([k \in 1 .. Len(mode_data) - 1 |-> CMul(mode_data[k][t], swsh_arr[k][a])])]]

\* swsh_arr = sYlm.T
\* np.sum(mode_data[:, np.newaxis, :] * swsh_arr[:, :, np.newaxis], axis=0)
swsh_sum(mode_data, sY) ==
  LET swsh_arr == Transpose(sY)
      n_modes == Len(mode_data)
      n_pts == Len(swsh_arr[1])
      n_times == Len(mode_data[1])
      \* broadcasting (n_modes, 1, n_times) * (n_modes, n_pts, 1)
      pairwise_product ==
        [k \in 1 .. n_modes |-> [a \in 1 .. n_pts |-> [t \in 1 .. n_times |->
           CMul(mode_data[k][t], swsh_arr[k][a])]]]
  IN  [a \in 1 .. n_pts |-> [t \in 1 .. n_times |->
         CSum([k \in 1 .. n_modes |-> pairwise_product[k][a][t]])]]

\* the strain signals a mode can hold, as functions of the time index
StrainSignals(n_times) ==
  {[t \in 1 .. n_times |-> Cx(RInt(t), RInt(t + 1))],
   [t \in 1 .. n_times |-> Cx(RInt(1), RZero)],
   [t \in 1 .. n_times |-> Cx(RZero, RInt(2 - t))]}

\* the harmonics' values at one point, as functions of the mode index
HarmonicRows(n_modes) ==
  {[k \in 1 .. n_modes |-> Cx(ROne, RZero)],
   [k \in 1 .. n_modes |-> Cx(RZero, RInt(k))],
   [k \in 1 .. n_modes |-> Cx(Rat(k - 2, 2), ROne)]}

-----------------------------------------------------------------------------
(* Arrays as objects (gen_wave_meshes and psi4_fft_to_strain of            *)
(* daisychain.py).  numpy arrays are mutable objects: a name refers to an  *)
(* array, basic indexing a[k] gives a view that shares the array's memory, *)
(* and a[i] = v or a[i] *= v writes into the array the name refers to.     *)
(* The arrays of a run live in a heap indexed by the name that first       *)
(* holds them; a reference is [obj, row], row = 0 for the whole array and  *)
(* row = k for the view of its k-th row.                                   *)

GwObjects == {"time_arr", "psi4_modes_data", "cum_phase", "fft_result",
              "strain_modes", "strain_modes_ddot", "strain_azi",
              "lerp_times", "strain_to_mesh"}

EmptyHeap == [o \in GwObjects |-> <<>>]

Whole(obj) == [obj |-> obj, row |-> 0]

\* a plausible slip: every row access going to the first row
RowView_first(obj, idx) == [obj |-> obj, row |-> 1]

\* a[idx] for a 2-D array a: the view of row idx (Python index)
RowView(obj, idx) == [obj |-> obj, row |-> idx + 1]

Load(h, ref) == IF ref.row = 0 THEN h[ref.obj] ELSE h[ref.obj][ref.row]

\* ref[...] = v
Store(h, ref, v) ==
  IF ref.row = 0 THEN [h EXCEPT ![ref.obj] = v]
                 ELSE [h EXCEPT ![ref.obj][ref.row] = v]

\* a plausible slip: the transform done in place, in the array it was given
np_fft_out_inplace(x) == x

\* daisychain.py:342  fft_result = np.fft.fft(...): np.fft.fft returns a new
\* array, whatever array or view it was given
np_fft_out(x) == Whole("fft_result")

\* daisychain.py:343-347  the filter loop, multiplying fft_result[i] in place
FilterBins(fft, freq_list, cutoff) ==
  [i \in 1 .. Len(fft) |-> CMul(fft[i], daisychain_factor(freq_list[i], cutoff))]

\* the samples a finite-difference stencil reads for output i of n
Stencil(i, n) ==
  IF i = 1 THEN 1 .. 4 ELSE IF i = n THEN (n - 3) .. n ELSE (i - 1) .. (i + 1)

\* second_time_derivative on complex data: the stencils have real
\* coefficients, so they act on the real and the imaginary parts; a
\* non-finite sample makes every output that reads it non-finite
second_time_derivative_complex(time, data) ==
  LET n == Len(data)
      re == second_time_derivative(time, [i \in 1 .. n |-> data[i].re])
      im == second_time_derivative(time, [i \in 1 .. n |-> data[i].im])
  IN  [i \in 1 .. n |->
         IF \A j \in Stencil(i, n) : data[j].ok THEN Cx(re[i], im[i]) ELSE NonFinite]

\* daisychain.py:224-229 on the whole array of phases: the counter after
\* sample i, and the cumulative phase
RECURSIVE CyclesAfter(_, _)
CyclesAfter(phs, i) ==
  IF i = 1 THEN daisychain_cycles(0, phs[1], phs[1])
           ELSE daisychain_cycles(CyclesAfter(phs, i - 1), phs[i], phs[i - 1])

CumPhase(phs) == [i \in 1 .. Len(phs) |-> phs[i] + 2 * PI * CyclesAfter(phs, i)]

\* the number of time samples of the mode files of a run: the fewest
\* second_time_derivative accepts
GwTimes == MinSamples("second_time_derivative")

\* the number of mesh radii and of azimuth points (n_rad_pts, n_azi_pts)
GwRadPts == 3

GwAziPts == 2

\* daisychain.py: EXT_RAD = 100
EXT_RAD == 100

\* daisychain.py:470  display_radius = 300
display_radius == 300

\* the samples the file for l holds for mode (l, m): a sinusoid whose
\* amplitude and frequency bin depend on the mode and on the data set
ModeSeries(l, m, data_set) ==
  Sinusoid(GwTimes,
           CASE (l + m + data_set) % 3 = 0 -> COne
             [] (l + m + data_set) % 3 = 1 -> CJ
             [] OTHER -> Cx(RInt(2), RInt(l)),
           (m + data_set) % GwTimes)

DataSets == 0 .. 2

\* the rows read_psi4_dir appends for the file of l
RowsOfFile(l, data_set) == [k \in 1 .. 2 * l + 1 |-> ModeSeries(l, k - 1 - l, data_set)]

\* np.angle of the (2, 2) mode, in units of pi / PhaseDen
GwPhases == {WrappedRamp(GwTimes, 0, 1), WrappedRamp(GwTimes, 0, PI - 1),
             <<-PI, 0, PI, 0>>}

\* np.linspace(0, stop, num)
np_linspace0(stop, num) == [i \in 1 .. num |-> Rat((i - 1) * stop, num - 1)]

\* np.clip(x, lo, hi)
np_clip(x, lo, hi) == IF RLt(x, lo) THEN lo ELSE IF RLt(hi, x) THEN hi ELSE x

RECURSIVE SeqMin(_)
SeqMin(s) == IF Len(s) = 1 THEN s[1]
             ELSE LET r == SeqMin(Tail(s)) IN IF RLeq(s[1], r) THEN s[1] ELSE r

RECURSIVE SeqMax(_)
SeqMax(s) == IF Len(s) = 1 THEN s[1]
             ELSE LET r == SeqMax(Tail(s)) IN IF RLeq(r, s[1]) THEN s[1] ELSE r

\* a plausible slip: the retarded time left unclamped
generate_interpolation_points_noclip(time_array, radius_values, r_ext) ==
  [r \in 1 .. Len(radius_values) |-> [t \in 1 .. Len(time_array) |->
     RAdd(RSub(time_array[t], radius_values[r]), r_ext)]]

\* daisychain.py:400-406, animation_main.py:85-91: the result is indexed
\* [radius][time]
generate_interpolation_points(time_array, radius_values, r_ext) ==
  LET time_repeated == [r \in 1 .. Len(radius_values) |-> time_array]
      radius_repeated ==
        [r \in 1 .. Len(radius_values) |-> [t \in 1 .. Len(time_array) |-> radius_values[r]]]
      target_times ==
        [r \in 1 .. Len(radius_values) |-> [t \in 1 .. Len(time_array) |->
           RAdd(RSub(time_repeated[r][t], radius_repeated[r][t]), r_ext)]]
  IN  [r \in 1 .. Len(radius_values) |-> [t \in 1 .. Len(time_array) |->
         np_clip(target_times[r][t], SeqMin(time_array), SeqMax(time_array))]]

\* np.interp(x, xp, fp) at one point x, for increasing xp
np_interp(x, xp, fp) ==
  LET n == Len(xp)
  IN  IF RLeq(x, xp[1]) THEN fp[1]
      ELSE IF RLeq(xp[n], x) THEN fp[n]
      ELSE LET i == CHOOSE k \in 1 .. n - 1 : RLeq(xp[k], x) /\ RLt(x, xp[k + 1])
               slope == CScale(CAdd(fp[i + 1], CScale(fp[i], RNeg(ROne))),
                               RDiv(ROne, RSub(xp[i + 1], xp[i])))
           IN  CAdd(CScale(slope, RSub(x, xp[i])), fp[i])

\* z.real
RealPart(z) == IF z.ok THEN Cx(z.re, RZero) ELSE NonFinite

\* the letters an answer to the prompt is typed with
Letters == {"Y", "y", "N", "n", "e", "E", "s", "S"}

Upper(ch) == CASE ch \in {"y", "Y"} -> "Y" [] ch \in {"n", "N"} -> "N"
               [] ch \in {"e", "E"} -> "E" [] ch \in {"s", "S"} -> "S"

Lower(ch) == CASE ch \in {"y", "Y"} -> "y" [] ch \in {"n", "N"} -> "n"
               [] ch \in {"e", "E"} -> "e" [] ch \in {"s", "S"} -> "s"

\* a plausible slip: only the first letter of the answer looked at
str_capitalize_first(s) == IF s = <<>> THEN <<>> ELSE <<Upper(s[1])>>

\* str.capitalize(): the first character upper-cased, the rest lower-cased
str_capitalize(s) ==
  [i \in 1 .. Len(s) |-> IF i = 1 THEN Upper(s[1]) ELSE Lower(s[i])]

\* what the user may type at the prompt
Answers == {<<>>, <<"Y">>, <<"y">>, <<"N">>, <<"n">>,
            <<"y", "e", "s">>, <<"Y", "E", "S">>, <<"n", "Y">>}

\* str.lower()
str_lower(s) == [i \in 1 .. Len(s) |-> Lower(s[i])]

\* animation_main.py:331-335  ask_user
ask_user(response) == IF str_lower(response) # <<"y">> THEN FALSE ELSE TRUE

\* whether the script asks before it goes on: daisychain.py:450
\* "if os.listdir(output_directory)", animation_main.py:392
\* "if os.path.exists(movie_file_path)"
asks_to_overwrite(script, exists, files) ==
  IF script = "daisychain" THEN files # {} ELSE exists

\* whether the answer lets the script delete: daisychain.py:454
\* answer.capitalize() == "Y", animation_main.py:393-395 ask_user(...)
overwrite_confirmed(script, answer) ==
  IF script = "daisychain" THEN str_capitalize(answer) = <<"Y">>
                           ELSE ~(ask_user(answer) = FALSE)

\* daisychain.py:449-459  check_output_directory on a directory holding
\* files (none if it did not exist: os.makedirs creates it), the user typing
\* answer if asked
check_output_directory(files, answer) ==
  IF ~asks_to_overwrite("daisychain", TRUE, files)
    THEN [files |-> files, asked |-> FALSE, exited |-> FALSE]
    ELSE IF overwrite_confirmed("daisychain", answer)
      THEN [files |-> {}, asked |-> TRUE, exited |-> FALSE]
      ELSE [files |-> files, asked |-> TRUE, exited |-> TRUE]

\* gen-wave-meshes.py:114-118, gen-gw-main.py:118-122  the target time of
\* one (time, radius) pair in the loop versions
loop_target_time(current_time, radius, r_ext, time_0, time_f) ==
  LET target_time == RAdd(RSub(current_time, radius), r_ext)
  IN  IF RLt(target_time, time_0) THEN time_0
      ELSE IF RLt(time_f, target_time) THEN time_f
      ELSE target_time

\* np.zeros((rows, cols))
np_zeros2(rows, cols) == [i \in 1 .. rows |-> [j \in 1 .. cols |-> RZero]]

-----------------------------------------------------------------------------
VARIABLES
  \* --- mode-index loop (get_index_from_modes over l, m)
  ix_pc,        \* "loop" | "done" | "idle"
  ix_ell_min,   \* the ell_min argument
  ix_ell_max,   \* the largest l of the loop
  ix_l,         \* outer loop variable l
  ix_m,         \* inner loop variable m
  ix_table,     \* sequence of [l, m, idx]: the indices computed so far, in loop order
  \* --- Mode Reader (read_psi4_dir, read_strain_files, read_modes_data)
  rd_pc,             \* "loop" | "done" (returned) | "error" (raised / exited) | "idle"
  rd_reader,         \* "read_psi4_dir" | "read_strain_files" | "read_modes_data"
  rd_ell_max,        \* ELL_MAX / the ell_max argument
  rd_l,              \* loop variable l (the l that failed, after an error)
  rd_files,          \* the files opened so far: rd_files[l - ELL_MIN + 1] is the file for l
  rd_error,          \* "none" | "ValueError" | "IndexError" | "exit"
  time_data,         \* local time_data: the time array of the file read last
  unique_times,      \* read_modes_data's unique_times (<<>> until set)
  consistant_length, \* consistant_length / time_data_size (-1 until set)
  psi4_modes_data,   \* read_psi4_dir's list of complex series, in append order
  mode_data,         \* the dictionary readers' (l, m) -> series
  rd_ret,            \* <<>> until the reader returns, then <<[time, modes]>>
  \* --- FFI Integrator on one series (the body of the loop over modes)
  ff_pc,             \* "fft" | "filter" | "ifft" | "done" | "idle"
  ff_script,         \* "daisychain" | "util": whose filter loop runs
  ff_time,           \* time_arr
  ff_psi4,           \* the psi4 samples of the mode
  ff_c,              \* the intercept c of the quadratic fit
  ff_cutoff,         \* freq_cutoff (daisychain) / omega_0 (util)
  ff_freq_list,      \* freq_list / fft_ang_freqs
  fft_result,        \* fft_result, multiplied in place bin by bin
  ff_i,              \* the filter loop's position (bins 1 .. ff_i - 1 are done)
  ff_factor,         \* the factor each filtered bin was multiplied by
  ff_branch,         \* the branch each filtered bin took: "cutoff" | "omega"
  ff_divzero,        \* a factor was computed by dividing by zero
  ff_strain,         \* the inverse FFT (<<>> until computed)
  \* --- a whole run: psi4_fft_to_strain (daisychain) or a util script's main
  run_pc,            \* "read" | "cutoff" | "integrate" | "write" | "done" | "idle"
  run_script,        \* "daisychain" | "util_integration" | "util_to_strain"
  run_ell_max,       \* ELL_MAX (daisychain), l_value (util_integration), ell_max
  run_n_azi,         \* num_azi_pts (util_to_strain)
  run_l,             \* loop variable l
  run_m,             \* loop variable m
  mode_idx,          \* mode_idx (daisychain) / idx_azi (util_to_strain)
  run_fits,          \* the quadratic fits made so far: [source, c], in call order
  freq_cutoff,       \* freq_cutoff (daisychain) / omega_0 (util), 0 until assigned
  run_applied,       \* per integrated series: [unit, cutoff, fit, divisors]
  \* --- parsing the lines of one file into rows (column counts matter here)
  pr_pc,        \* "parse" | "loaded" | "error" | "idle"
  pr_reader,    \* "read_psi4_dir" | "load_data"
  pr_lines,     \* the non-comment lines of the file: [w, t, v] each
  pr_data,      \* the rows of data after loading (<<>> until loaded)
  pr_error,     \* "none" | "ValueError" | "IndexError"
  \* --- psi4_fft_to_strain against the input directory (which files exist)
  fs_pc,        \* "read" | "except" | "integrate" | "write" | "done" | "raised" | "idle"
  fs_listdir,   \* the l values for which INPUT_DIR holds a matching file
  fs_l,         \* read_psi4_dir's loop variable l
  fs_opened,    \* the paths opened so far
  fs_exc,       \* <<>>, or <<e>>: the exception in flight / seen by the caller
  fs_strain,    \* TRUE once strain modes have been computed
  fs_written,   \* TRUE once psi4_conv_to_strain.csv has been written
  \* --- first_time_derivative / second_time_derivative on one array
  dv_pc,        \* "call" | "returned" | "error" | "idle"
  dv_fn,        \* "first_time_derivative" | "second_time_derivative"
  dv_time,      \* the time argument
  dv_data,      \* the data argument
  dv_ret,       \* <<>>, or <<array>> once returned
  \* --- the phase-unwrapping loop (psi4_phase_and_amplitude, process_wave_data)
  ph_pc,        \* "loop" | "returned" | "error" | "idle"
  ph_variant,   \* which script's loop runs
  phases,       \* np.angle(cmplx), in units of pi / PhaseDen
  ph_i,         \* the loop has handled phases[1 .. ph_i - 1]
  cycles,       \* the cycle counter
  last_phase,   \* last_phase
  cum_phase,    \* the cumulative phases computed so far
  ph_ret,       \* <<>>, or <<[cum_phase, cum_phase_dt]>> once returned
  \* --- swsh_summation_angles
  sw_pc,         \* "call" | "returned" | "idle"
  sw_mode_data,  \* the mode_data argument: sw_mode_data[k][t], shape (n_modes, n_times)
  sw_passed,     \* the caller's copy of mode_data as it was when passed
  sYlm,          \* winger.sYlm(S_MODE, quat_arr): sYlm[a][k], shape (n_pts, n_modes)
  sw_ret,        \* <<>>, or <<array>> once returned
  \* --- gen_wave_meshes (daisychain.py), psi4_fft_to_strain included
  gw_pc,          \* "check" | "read" | "cutoff" | "integrate" | "write" | "swsh"
                  \* | "mesh" | "done" | "exited" | "raised" | "idle"
  gw_ell_max,     \* ELL_MAX of the run
  gw_data_set,    \* which data the mode files hold
  gw_dt,          \* the time step of the mode files
  gw_dir,         \* the files in VTKOUT
  gw_out,         \* the files written to OUTPUT_DIR
  gw_heap,        \* the arrays of the run, by name
  gw_fft_ref,     \* the array the name fft_result refers to
  gw_l,           \* loop variable l (reader, then integration loop)
  gw_m,           \* loop variable m
  gw_mode_idx,    \* mode_idx of psi4_fft_to_strain; time_idx of the mesh loop
  gw_cutoff,      \* <<>>, or <<freq_cutoff>> once assigned
  gw_labels,      \* labels
  gw_log,         \* the steps completed so far, in order
  gw_fit,         \* <<>>, or <<fit>>: what curve_fit did
  gw_exc,         \* "none", or the exception that ended the run
  \* --- the check of the output directory (check_output_directory of
  \* daisychain.py, the movie directory in animation_main.py's main)
  od_pc,          \* "enter" | "prompt" | "remove" | "returned" | "exited" | "idle"
  od_script,      \* "daisychain" | "animation_main"
  od_exists,      \* the directory exists
  od_files,       \* the files it holds
  od_before,      \* the files it held when the check began
  od_answer,      \* <<>>, or <<answer>> once the user has answered
  \* --- generate_interpolation_points: the vectorized version (daisychain.py,
  \* animation_main.py) and the loop version (gen-wave-meshes.py), same input
  lp_pc,          \* "run" | "returned" | "idle"
  lp_time,        \* time_array
  lp_radius,      \* radius_values
  lp_r_ext,       \* r_ext
  lp_vec,         \* <<>>, or <<array>>: what the vectorized version returned
  lp_state,       \* the loop version's outer index (Python index)
  lp_j,           \* the loop version's inner index (Python index)
  lp_target,      \* the loop version's target_times
  lp_loop_done,   \* the loop version has returned target_times
  \* --- animation_main.py: the anim generator
  an_pc,          \* "loop" | "exited" | "finished" | "idle"
  an_n_times,        \* len(time_array)
  save_rate,      \* every save_rate-th time sample becomes a frame
  n_frames,       \* int(n_times / save_rate)
  time_idx,       \* the loop variable of range(n_times)
  an_saved,       \* the frame numbers passed to mlab.savefig, in order
  an_movies,      \* the number of calls of convert_to_movie
  \* --- gen-gw-main.py: the target-time loop and the main loop
  gm_pc,          \* "fill" | "main" | "raised" | "done" | "idle"
  gm_h_time,         \* the time column of the strain file
  gm_h_strain,       \* the complex strain of the strain file
  gm_radius,      \* radius_values
  t_array,        \* the target times, one row per time sample
  h_array,        \* <<>> until np.interp has produced it
  gm_state,       \* the loop variable state of enumerate(h_time, start=1)
  gm_j,           \* the inner index j (Python index)
  gm_access,      \* the indexings t_array[state] and h_array[state] made so far
  gm_filled,      \* the Python row indices of t_array that were assigned
  gm_files        \* the state numbers of the .vtu files written

ixVars == <<ix_pc, ix_ell_min, ix_ell_max, ix_l, ix_m, ix_table>>

rdVars == <<rd_pc, rd_reader, rd_ell_max, rd_l, rd_files, rd_error, time_data,
            unique_times, consistant_length, psi4_modes_data, mode_data, rd_ret>>

ffVars == <<ff_pc, ff_script, ff_time, ff_psi4, ff_c, ff_cutoff, ff_freq_list,
            fft_result, ff_i, ff_factor, ff_branch, ff_divzero, ff_strain>>

runVars == <<run_pc, run_script, run_ell_max, run_n_azi, run_l, run_m, mode_idx,
             run_fits, freq_cutoff, run_applied>>

prVars == <<pr_pc, pr_reader, pr_lines, pr_data, pr_error>>

fsVars == <<fs_pc, fs_listdir, fs_l, fs_opened, fs_exc, fs_strain, fs_written>>

dvVars == <<dv_pc, dv_fn, dv_time, dv_data, dv_ret>>

phVars == <<ph_pc, ph_variant, phases, ph_i, cycles, last_phase, cum_phase, ph_ret>>

swVars == <<sw_pc, sw_mode_data, sw_passed, sYlm, sw_ret>>

gwVars == <<gw_pc, gw_ell_max, gw_data_set, gw_dt, gw_dir, gw_out, gw_heap,
            gw_fft_ref, gw_l, gw_m, gw_mode_idx, gw_cutoff, gw_labels, gw_log,
            gw_fit, gw_exc>>

odVars == <<od_pc, od_script, od_exists, od_files, od_before, od_answer>>

lpVars == <<lp_pc, lp_time, lp_radius, lp_r_ext, lp_vec, lp_state, lp_j, lp_target,
            lp_loop_done>>

anVars == <<an_pc, an_n_times, save_rate, n_frames, time_idx, an_saved, an_movies>>

gmVars == <<gm_pc, gm_h_time, gm_h_strain, gm_radius, t_array, h_array, gm_state, gm_j,
            gm_access, gm_filled, gm_files>>

vars == <<ixVars, rdVars, ffVars, runVars, prVars, fsVars, dvVars, phVars, swVars,
          gwVars, odVars, lpVars, anVars, gmVars>>

\* what the actions of one component leave alone
notIxVars == <<rdVars, ffVars, runVars, prVars, fsVars, dvVars, phVars, swVars, gwVars, odVars, lpVars, anVars, gmVars>>
notRdVars == <<ixVars, ffVars, runVars, prVars, fsVars, dvVars, phVars, swVars, gwVars, odVars, lpVars, anVars, gmVars>>
notFfVars == <<ixVars, rdVars, runVars, prVars, fsVars, dvVars, phVars, swVars, gwVars, odVars, lpVars, anVars, gmVars>>
notRunVars == <<ixVars, rdVars, ffVars, prVars, fsVars, dvVars, phVars, swVars, gwVars, odVars, lpVars, anVars, gmVars>>
notPrVars == <<ixVars, rdVars, ffVars, runVars, fsVars, dvVars, phVars, swVars, gwVars, odVars, lpVars, anVars, gmVars>>
notFsVars == <<ixVars, rdVars, ffVars, runVars, prVars, dvVars, phVars, swVars, gwVars, odVars, lpVars, anVars, gmVars>>
notDvVars == <<ixVars, rdVars, ffVars, runVars, prVars, fsVars, phVars, swVars, gwVars, odVars, lpVars, anVars, gmVars>>
notPhVars == <<ixVars, rdVars, ffVars, runVars, prVars, fsVars, dvVars, swVars, gwVars, odVars, lpVars, anVars, gmVars>>
notSwVars == <<ixVars, rdVars, ffVars, runVars, prVars, fsVars, dvVars, phVars, gwVars, odVars, lpVars, anVars, gmVars>>
notGwVars == <<ixVars, rdVars, ffVars, runVars, prVars, fsVars, dvVars, phVars, swVars, odVars, lpVars, anVars, gmVars>>
notOdVars == <<ixVars, rdVars, ffVars, runVars, prVars, fsVars, dvVars, phVars, swVars, gwVars, lpVars, anVars, gmVars>>
notLpVars == <<ixVars, rdVars, ffVars, runVars, prVars, fsVars, dvVars, phVars, swVars, gwVars, odVars, anVars, gmVars>>
notAnVars == <<ixVars, rdVars, ffVars, runVars, prVars, fsVars, dvVars, phVars, swVars, gwVars, odVars, lpVars, gmVars>>
notGmVars == <<ixVars, rdVars, ffVars, runVars, prVars, fsVars, dvVars, phVars, swVars, gwVars, odVars, lpVars, anVars>>

-----------------------------------------------------------------------------
(* The mode-index loop: for l in range(ell_min, ell_max + 1):              *)
(*                         for m in range(-l, l + 1): index(l, m, ell_min) *)

IxIdle ==
  /\ ix_pc = "idle"
  /\ ix_ell_min = 0
  /\ ix_ell_max = 0
  /\ ix_l = 0
  /\ ix_m = 0
  /\ ix_table = <<>>

IxInit ==
  /\ ix_pc = "loop"
  /\ ix_ell_min \in 0 .. MaxEll
  /\ ix_ell_max \in ix_ell_min .. MaxEll
  /\ ix_l = ix_ell_min
  /\ ix_m = -ix_ell_min
  /\ ix_table = <<>>

\* one iteration of the inner loop
IndexStep ==
  /\ ix_pc = "loop"
  /\ ix_table' = Append(ix_table,
       [l |-> ix_l, m |-> ix_m,
        idx |-> get_index_from_modes(ix_l, ix_m, ix_ell_min)])
  /\ IF ix_m < ix_l
       THEN /\ ix_m' = ix_m + 1
            /\ UNCHANGED <<ix_l, ix_pc>>
       ELSE IF ix_l < ix_ell_max
         THEN /\ ix_l' = ix_l + 1
              /\ ix_m' = -(ix_l + 1)
              /\ UNCHANGED ix_pc
         ELSE /\ ix_pc' = "done"
              /\ UNCHANGED <<ix_l, ix_m>>
  /\ UNCHANGED <<ix_ell_min, ix_ell_max>>

-----------------------------------------------------------------------------
(* The Mode Reader: one action per iteration of the loop over l            *)

EmptyDict == [k \in {} |-> 0]

RdIdle ==
  /\ rd_pc = "idle"
  /\ rd_reader = "none"
  /\ rd_ell_max = 0
  /\ rd_l = 0
  /\ rd_files = <<>>
  /\ rd_error = "none"
  /\ time_data = <<>>
  /\ unique_times = <<>>
  /\ consistant_length = -1
  /\ psi4_modes_data = <<>>
  /\ mode_data = EmptyDict
  /\ rd_ret = <<>>

RdInit ==
  /\ rd_pc = "loop"
  /\ rd_reader \in {"read_psi4_dir", "read_strain_files", "read_modes_data",
                      "read_psi4", "initialize"}
  /\ rd_ell_max \in ELL_MIN .. MaxReadEll
  \* read_psi4 and initialize read one file; the l of its name is ELL_MIN here
  /\ rd_reader \in {"read_psi4", "initialize"} => rd_ell_max = ELL_MIN
  /\ rd_l = ELL_MIN
  /\ rd_files = <<>>
  /\ rd_error = "none"
  /\ time_data = <<>>
  /\ unique_times = <<>>
  /\ consistant_length = -1
  /\ psi4_modes_data = <<>>
  /\ mode_data = EmptyDict
  /\ rd_ret = <<>>

\* the exception leaves the function: the loop stops at l, nothing is returned
RdRaise(lines, err) ==
  /\ rd_pc' = "error"
  /\ rd_error' = err
  /\ rd_files' = Append(rd_files, lines)
  /\ UNCHANGED <<rd_reader, rd_ell_max, rd_l, time_data, unique_times,
                 consistant_length, psi4_modes_data, mode_data, rd_ret>>

\* the loop goes on to the next l, or ends
RdAdvance(lines) ==
  /\ rd_files' = Append(rd_files, lines)
  /\ rd_l' = rd_l + 1
  /\ UNCHANGED <<rd_pc, rd_reader, rd_ell_max, rd_error, rd_ret>>

\* dict.update with the 2*l + 1 modes of the file for l
StoreModes(dict, l, series) ==
  [k \in DOMAIN dict \cup {<<l, m>> : m \in -l .. l} |->
     IF k[1] = l THEN series[k[2]] ELSE dict[k]]

\* daisychain.py read_psi4_dir, lines 54-76: the body of "for l in range(...)"
ReadPsi4DirFile(lines) ==
  /\ rd_pc = "loop"
  /\ rd_reader = "read_psi4_dir"
  /\ rd_l <= rd_ell_max
  /\ IF Len(lines) = 0
       THEN \* np.array([]) is 1-D: data[:, 0] raises IndexError
            RdRaise(lines, "IndexError")
       ELSE LET u == np_unique(lines)
                data == u.index
                expected == IF consistant_length = -1
                              THEN Len(u.values) ELSE consistant_length
            IN  IF LengthMismatch(expected, Len(u.values))
                  THEN /\ rd_pc' = "error"
                       /\ rd_error' = "ValueError"
                       /\ rd_files' = Append(rd_files, lines)
                       /\ time_data' = u.values
                       /\ UNCHANGED <<rd_reader, rd_ell_max, rd_l, unique_times,
                                      consistant_length, psi4_modes_data,
                                      mode_data, rd_ret>>
                  ELSE /\ time_data' = u.values
                       /\ consistant_length' = expected
                       /\ psi4_modes_data' = psi4_modes_data \o ModesOfFile(rd_l, data)
                       /\ RdAdvance(lines)
                       /\ UNCHANGED <<unique_times, mode_data>>

\* gen-wave-meshes.py read_strain_files, lines 25-54: the body of "for ell in range(2, 9)"
ReadStrainFile(lines) ==
  /\ rd_pc = "loop"
  /\ rd_reader = "read_strain_files"
  /\ rd_l <= rd_ell_max
  /\ IF Len(lines) = 0
       THEN RdRaise(lines, "IndexError")
       ELSE \E order \in np_argsort(lines) :
              LET sorted == Take(lines, order)
                  u == np_unique(sorted)
                  data == Take(order, u.index)
              IN  IF consistant_length >= 0
                       /\ LengthMismatch(consistant_length, Len(u.values))
                    THEN /\ rd_pc' = "error"
                         /\ rd_error' = "ValueError"
                         /\ rd_files' = Append(rd_files, lines)
                         /\ time_data' = Take(lines, data)
                         /\ UNCHANGED <<rd_reader, rd_ell_max, rd_l, unique_times,
                                        consistant_length, psi4_modes_data,
                                        mode_data, rd_ret>>
                    ELSE /\ time_data' = Take(lines, data)
                         /\ consistant_length' =
                              IF consistant_length < 0
                                THEN Len(u.values) ELSE consistant_length
                         /\ mode_data' = StoreModes(mode_data, rd_l,
                              [m \in -rd_l .. rd_l |->
                                 ComplexSeries(rd_l, data, 1 + 2 * (m + rd_l))])
                         /\ RdAdvance(lines)
                         /\ UNCHANGED <<unique_times, psi4_modes_data>>

\* util-psi4-FFT-to-Strain.py read_modes_data, lines 13-37: the body of
\* "for l in range(2, ell_max + 1)"
ReadModesDataFile(lines) ==
  /\ rd_pc = "loop"
  /\ rd_reader = "read_modes_data"
  /\ rd_l <= rd_ell_max
  /\ IF Len(lines) = 0
       THEN RdRaise(lines, "IndexError")
       ELSE \E order \in np_argsort(lines) :
              LET uniq == IF Len(unique_times) = 0
                            THEN np_unique(lines).values ELSE unique_times
                  sorted == Take(lines, order)
              IN  IF np_all(sorted) # np_all(uniq)
                    THEN \* print(...); exit()
                         /\ rd_pc' = "error"
                         /\ rd_error' = "exit"
                         /\ rd_files' = Append(rd_files, lines)
                         /\ time_data' = sorted
                         /\ unique_times' = uniq
                         /\ UNCHANGED <<rd_reader, rd_ell_max, rd_l,
                                        consistant_length, psi4_modes_data,
                                        mode_data, rd_ret>>
                    ELSE /\ time_data' = sorted
                         /\ unique_times' = uniq
                         /\ mode_data' = StoreModes(mode_data, rd_l,
                              [m \in -rd_l .. rd_l |->
                                 [real |-> Column(rd_l, order, 1 + 2 * (m + rd_l)),
                                  imag |-> Column(rd_l, order, 1 + 2 * (m + rd_l) + 1)]])
                         /\ RdAdvance(lines)
                         /\ UNCHANGED <<consistant_length, psi4_modes_data>>

\* util-psi4-FFT-integration.py read_psi4, lines 21-46: the whole function
\* (one file: sort by time, drop duplicate times, store the columns, return)
ReadPsi4File(lines) ==
  /\ rd_pc = "loop"
  /\ rd_reader = "read_psi4"
  /\ IF Len(lines) = 0
       THEN RdRaise(lines, "IndexError")
       ELSE \E order \in np_argsort(lines) :
              LET sorted == Take(lines, order)
                  u == np_unique(sorted)
                  data == Take(order, u.index)
                  modes == StoreModes(mode_data, rd_l,
                             [m \in -rd_l .. rd_l |->
                                [real |-> Column(rd_l, data, 1 + 2 * (m + rd_l)),
                                 imag |-> Column(rd_l, data, 1 + 2 * (m + rd_l) + 1)]])
              IN  /\ time_data' = Take(lines, data)
                  /\ mode_data' = modes
                  /\ rd_files' = Append(rd_files, lines)
                  /\ rd_pc' = "done"
                  /\ rd_ret' = <<[time |-> Take(lines, data), modes |-> modes]>>
                  /\ UNCHANGED <<rd_reader, rd_ell_max, rd_l, rd_error, unique_times,
                                 consistant_length, psi4_modes_data>>

\* gen-gw-main-new.py initialize, lines 13-23: the whole function
InitializeFile(rows) ==
  /\ rd_pc = "loop"
  /\ rd_reader = "initialize"
  /\ IF Len(rows) = 0
       THEN \* strain_data is 1-D: strain_data[:, 0] raises IndexError
            RdRaise(rows, "IndexError")
       ELSE LET strain_data == np_unique_rows(Range(rows))
                h_time == [i \in 1 .. Len(strain_data) |-> strain_data[i][1]]
                h_strain == [i \in 1 .. Len(strain_data) |-> strain_data[i][2]]
            IN  IF ~np_diff_positive(h_time)
                  THEN /\ rd_pc' = "error"
                       /\ rd_error' = "ValueError"
                       /\ rd_files' = Append(rd_files, rows)
                       /\ time_data' = h_time
                       /\ UNCHANGED <<rd_reader, rd_ell_max, rd_l, unique_times,
                                      consistant_length, psi4_modes_data,
                                      mode_data, rd_ret>>
                  ELSE /\ rd_pc' = "done"
                       /\ rd_files' = Append(rd_files, rows)
                       /\ time_data' = h_time
                       /\ consistant_length' = Len(strain_data)
                       /\ rd_ret' = <<[time |-> h_time, modes |-> h_strain]>>
                       /\ UNCHANGED <<rd_reader, rd_ell_max, rd_l, rd_error,
                                      unique_times, psi4_modes_data, mode_data>>

\* the return statement after the loop
ReaderReturn ==
  /\ rd_pc = "loop"
  /\ rd_reader \notin {"read_psi4", "initialize"}
  /\ rd_l > rd_ell_max
  /\ rd_pc' = "done"
  /\ rd_ret' =
       CASE rd_reader = "read_psi4_dir" ->
              <<[time |-> time_data, modes |-> psi4_modes_data]>>
         [] rd_reader = "read_strain_files" ->
              <<[time |-> time_data, modes |-> mode_data]>>
         [] rd_reader = "read_modes_data" ->
              <<[time |-> unique_times, modes |-> mode_data]>>
  /\ UNCHANGED <<rd_reader, rd_ell_max, rd_l, rd_files, rd_error, time_data,
                 unique_times, consistant_length, psi4_modes_data, mode_data>>

-----------------------------------------------------------------------------
(* The FFI Integrator on one series: forward FFT, the filter loop over the *)
(* frequency bins (one action per bin), inverse FFT.                       *)

FfIdle ==
  /\ ff_pc = "idle"
  /\ ff_script = "none"
  /\ ff_time = <<>>
  /\ ff_psi4 = <<>>
  /\ ff_c = RZero
  /\ ff_cutoff = RZero
  /\ ff_freq_list = <<>>
  /\ fft_result = <<>>
  /\ ff_i = 0
  /\ ff_factor = <<>>
  /\ ff_branch = <<>>
  /\ ff_divzero = FALSE
  /\ ff_strain = <<>>

\* the series, the time grid and the fitted c are given; the cutoff is derived
FfInit ==
  /\ ff_pc = "fft"
  /\ ff_script \in {"daisychain", "util"}
  /\ \E n \in FFTSizes :
       /\ ff_time \in {TimeGrid(n, dt) : dt \in DtValues}
       /\ ff_psi4 \in Psi4Inputs(n)
  /\ ff_c \in CValues
  /\ ff_cutoff = freq_cutoff_of(ff_script, intercept_magnitude(ff_c))
  /\ ff_freq_list = <<>>
  /\ fft_result = <<>>
  /\ ff_i = 0
  /\ ff_factor = <<>>
  /\ ff_branch = <<>>
  /\ ff_divzero = FALSE
  /\ ff_strain = <<>>

\* daisychain.py:335,342 / util-psi4-FFT-to-Strain.py:148-149
ForwardFFT ==
  /\ ff_pc = "fft"
  /\ ff_freq_list' = FreqList(ff_time)
  /\ fft_result' = np_fft(ff_psi4)
  /\ ff_i' = 1
  /\ ff_pc' = "filter"
  /\ UNCHANGED <<ff_script, ff_time, ff_psi4, ff_c, ff_cutoff, ff_factor,
                 ff_branch, ff_divzero, ff_strain>>

\* daisychain.py:343-347 / util-psi4-FFT-to-Strain.py:155-159: one iteration of
\* "for i, omega in enumerate(freq_list)"
FilterBin ==
  /\ ff_pc = "filter"
  /\ ff_i <= Len(ff_freq_list)
  /\ LET omega == ff_freq_list[ff_i]
         factor == filter_factor(ff_script, omega, ff_cutoff)
     IN  /\ fft_result' = [fft_result EXCEPT ![ff_i] = CMul(@, factor)]
         /\ ff_factor' = Append(ff_factor, factor)
         /\ ff_branch' = Append(ff_branch,
              IF filter_in_cutoff_branch(ff_script, omega, ff_cutoff)
                THEN "cutoff" ELSE "omega")
         /\ ff_divzero' =
              (ff_divzero \/ filter_divisor(ff_script, omega, ff_cutoff) = CZero)
  /\ ff_i' = ff_i + 1
  /\ UNCHANGED <<ff_pc, ff_script, ff_time, ff_psi4, ff_c, ff_cutoff,
                 ff_freq_list, ff_strain>>

\* daisychain.py:349 / util-psi4-FFT-to-Strain.py:161
InverseFFT ==
  /\ ff_pc = "filter"
  /\ ff_i > Len(ff_freq_list)
  /\ ff_strain' = np_ifft(fft_result)
  /\ ff_pc' = "done"
  /\ UNCHANGED <<ff_script, ff_time, ff_psi4, ff_c, ff_cutoff, ff_freq_list,
                 fft_result, ff_i, ff_factor, ff_branch, ff_divzero>>

-----------------------------------------------------------------------------
(* A whole run.  daisychain.psi4_fft_to_strain: read, fit the (2,2) mode,  *)
(* integrate every mode, write.  util-psi4-FFT-integration.main: for each  *)
(* m of one l, fit then integrate.  util-psi4-FFT-to-Strain.main: for each *)
(* azimuth, sum the modes, fit then integrate.  curve_fit is SciPy's; its  *)
(* result c is an input of the model.                                      *)

RunCValues == {Rat(n, 2) : n \in -MaxRunCNum .. MaxRunCNum}

\* the runs cover ELL_MAX (l_value) = 2 and 3
RunEllValues == ELL_MIN .. ELL_MIN + 1

\* the frequency bins of the run's time array (4 samples, dt = 1)
RunFreqList == FreqList(TimeGrid(4, RInt(1)))

\* the divisor used for each bin when a series is filtered with cutoff
BinDivisors(script, cutoff) ==
  [i \in 1 .. Len(RunFreqList) |-> filter_divisor(script, RunFreqList[i], cutoff)]

\* the series a fit or an integration works on: a psi4 mode (l, m), or the
\* weighted sum of all modes at azimuth number m
Unit(kind, l, m) == [kind |-> kind, l |-> l, m |-> m]

\* the mode stored at position idx of read_psi4_dir's table (the files are read
\* for l = ELL_MIN, ELL_MIN + 1, ..., each appending m = -l .. l)
ModeAt(idx) ==
  LET l == CHOOSE k \in ELL_MIN .. ELL_MAX :
             k * k - ELL_MIN * ELL_MIN <= idx
               /\ idx < (k + 1) * (k + 1) - ELL_MIN * ELL_MIN
  IN  Unit("mode", l, idx - (l * l - ELL_MIN * ELL_MIN) - l)

RunIdle ==
  /\ run_pc = "idle"
  /\ run_script = "none"
  /\ run_ell_max = 0
  /\ run_n_azi = 0
  /\ run_l = 0
  /\ run_m = 0
  /\ mode_idx = 0
  /\ run_fits = <<>>
  /\ freq_cutoff = RZero
  /\ run_applied = <<>>

RunInit ==
  /\ run_pc = "read"
  /\ run_script \in {"daisychain", "util_integration", "util_to_strain"}
  /\ run_ell_max \in RunEllValues
  /\ run_n_azi \in 1 .. MaxAziPts
  /\ run_script # "util_to_strain" => run_n_azi = 1
  /\ run_script = "util_to_strain" => run_ell_max = ELL_MIN
  /\ run_l = 0
  /\ run_m = 0
  /\ mode_idx = 0
  /\ run_fits = <<>>
  /\ freq_cutoff = RZero
  /\ run_applied = <<>>

\* daisychain.py:318-321  time_arr, psi4_modes_data = read_psi4_dir()
RunReadDir ==
  /\ run_script = "daisychain"
  /\ run_pc = "read"
  /\ run_pc' = "cutoff"
  /\ UNCHANGED <<run_script, run_ell_max, run_n_azi, run_l, run_m, mode_idx,
                 run_fits, freq_cutoff, run_applied>>

\* daisychain.py:323-338  extract_min_omega_ell2_m2 on the mode at
\* get_index_from_modes(2, 2), freq_cutoff, then the loop variables
RunExtractMinOmega(c) ==
  /\ run_script = "daisychain"
  /\ run_pc = "cutoff"
  /\ run_fits' = Append(run_fits,
       [source |-> ModeAt(get_index_from_modes(2, 2, ELL_MIN)), c |-> c])
  /\ freq_cutoff' = freq_cutoff_of("daisychain", intercept_magnitude(c))
  /\ mode_idx' = 0
  /\ run_l' = ELL_MIN
  /\ run_m' = -ELL_MIN
  /\ run_pc' = "integrate"
  /\ UNCHANGED <<run_script, run_ell_max, run_n_azi, run_applied>>

\* daisychain.py:339-357  one iteration of the loops over l and m
RunIntegrateMode ==
  /\ run_script = "daisychain"
  /\ run_pc = "integrate"
  /\ run_applied' = Append(run_applied,
       [unit |-> ModeAt(get_index_from_modes(run_l, run_m, ELL_MIN)),
        cutoff |-> freq_cutoff,
        fit |-> Len(run_fits),
        divisors |-> BinDivisors("daisychain", freq_cutoff)])
  /\ mode_idx' = mode_idx + 1
  /\ IF run_m < run_l
       THEN /\ run_m' = run_m + 1
            /\ UNCHANGED <<run_l, run_pc>>
       ELSE IF run_l < run_ell_max
         THEN /\ run_l' = run_l + 1
              /\ run_m' = -(run_l + 1)
              /\ UNCHANGED run_pc
         ELSE /\ run_pc' = "write"
              /\ UNCHANGED <<run_l, run_m>>
  /\ UNCHANGED <<run_script, run_ell_max, run_n_azi, run_fits, freq_cutoff>>

\* daisychain.py:360-362  arrays_to_txt(...); return time_arr, strain_modes
RunWriteStrain ==
  /\ run_script = "daisychain"
  /\ run_pc = "write"
  /\ run_pc' = "done"
  /\ UNCHANGED <<run_script, run_ell_max, run_n_azi, run_l, run_m, mode_idx,
                 run_fits, freq_cutoff, run_applied>>

\* util-psi4-FFT-integration.py:170 read_psi4(file_name);
\* util-psi4-FFT-to-Strain.py:135 read_modes_data(input_dir, ell_max)
UtilReadInput ==
  /\ run_script \in {"util_integration", "util_to_strain"}
  /\ run_pc = "read"
  /\ run_pc' = "integrate"
  /\ run_l' = run_ell_max
  /\ run_m' = -run_ell_max
  /\ mode_idx' = 0
  /\ UNCHANGED <<run_script, run_ell_max, run_n_azi, run_fits, freq_cutoff,
                 run_applied>>

\* util-psi4-FFT-integration.py:173-201  one iteration of "for m in range(...)":
\* fit the mode's own angular frequency, then filter the mode with that omega_0
UtilIntegrationMode(c) ==
  /\ run_script = "util_integration"
  /\ run_pc = "integrate"
  /\ LET omega_0 == freq_cutoff_of("util_integration", intercept_magnitude(c))
     IN  /\ run_fits' = Append(run_fits, [source |-> Unit("mode", run_l, run_m), c |-> c])
         /\ freq_cutoff' = omega_0
         /\ run_applied' = Append(run_applied,
              [unit |-> Unit("mode", run_l, run_m),
               cutoff |-> omega_0,
               fit |-> Len(run_fits) + 1,
               divisors |-> BinDivisors("util", omega_0)])
  /\ IF run_m < run_l
       THEN run_m' = run_m + 1 /\ UNCHANGED run_pc
       ELSE run_pc' = "done" /\ UNCHANGED run_m
  /\ UNCHANGED <<run_script, run_ell_max, run_n_azi, run_l, mode_idx>>

\* util-psi4-FFT-to-Strain.py:138-167  one iteration of "for idx_azi, azi in ...":
\* sum the weighted modes, fit the sum's angular frequency, filter the sum
UtilToStrainAzimuth(c) ==
  /\ run_script = "util_to_strain"
  /\ run_pc = "integrate"
  /\ LET omega_0 == freq_cutoff_of("util_to_strain", intercept_magnitude(c))
     IN  /\ run_fits' = Append(run_fits, [source |-> Unit("azimuth sum", 0, mode_idx), c |-> c])
         /\ freq_cutoff' = omega_0
         /\ run_applied' = Append(run_applied,
              [unit |-> Unit("azimuth sum", 0, mode_idx),
               cutoff |-> omega_0,
               fit |-> Len(run_fits) + 1,
               divisors |-> BinDivisors("util", omega_0)])
  /\ mode_idx' = mode_idx + 1
  /\ IF mode_idx + 1 < run_n_azi
       THEN UNCHANGED run_pc
       ELSE run_pc' = "done"
  /\ UNCHANGED <<run_script, run_ell_max, run_n_azi, run_l, run_m>>

-----------------------------------------------------------------------------
(* Parsing the lines of one file.  A line is [w, t, v]: its number of      *)
(* columns, its first column (the time) and its second column.  A full     *)
(* line of the l = 2 file has 1 + 2*(2*2 + 1) = 11 columns; a truncated    *)
(* line has fewer.                                                         *)

FullWidth == 1 + 2 * (2 * ELL_MIN + 1)

ShortWidth == 3

LineValues == [w : {ShortWidth, FullWidth}, t : TimeValues, v : {0, 1}]

ParsedFiles == UNION {[1 .. n -> LineValues] : n \in 0 .. MaxLines}

Ragged(lines) == \E i \in 1 .. Len(lines) : lines[i].w # lines[1].w

\* the row a line becomes, as far as np.unique(axis=0) compares it
RowOf(line) == <<line.t, line.v>>

PrIdle ==
  /\ pr_pc = "idle"
  /\ pr_reader = "none"
  /\ pr_lines = <<>>
  /\ pr_data = <<>>
  /\ pr_error = "none"

PrInit ==
  /\ pr_pc = "parse"
  /\ pr_reader \in {"read_psi4_dir", "load_data"}
  /\ pr_lines \in ParsedFiles
  /\ pr_data = <<>>
  /\ pr_error = "none"

PrRaise(errors) ==
  /\ pr_pc' = "error"
  /\ pr_error' \in errors
  /\ UNCHANGED <<pr_reader, pr_lines, pr_data>>

\* daisychain.py read_psi4_dir, lines 55-76, on the file of l = ELL_MIN
ParsePsi4DirFile ==
  /\ pr_pc = "parse"
  /\ pr_reader = "read_psi4_dir"
  /\ IF Len(pr_lines) = 0
       THEN \* data is 1-D: data[:, 0] raises IndexError
            PrRaise({"IndexError"})
       ELSE IF Ragged(pr_lines)
         THEN \* np.array of rows of unequal length: ValueError (inhomogeneous
              \* shape) on numpy >= 1.24; an object array before that, and
              \* then data[:, 0] raises IndexError
              PrRaise({"ValueError", "IndexError"})
         ELSE IF pr_lines[1].w < FullWidth
           THEN \* the column loop reads data[:, real_idx] past the last column
                PrRaise({"IndexError"})
           ELSE /\ pr_data' = Take(pr_lines,
                                   np_unique([i \in 1 .. Len(pr_lines) |-> pr_lines[i].t]).index)
                /\ pr_pc' = "loaded"
                /\ UNCHANGED <<pr_reader, pr_lines, pr_error>>

\* strain_plt_3.0.py load_data, lines 32-47
LoadData ==
  /\ pr_pc = "parse"
  /\ pr_reader = "load_data"
  /\ IF Len(pr_lines) = 0
       THEN \* data[0] of an empty list
            PrRaise({"IndexError"})
       ELSE LET num_columns == pr_lines[1].w
                data == {ln \in Range(pr_lines) : ln.w = num_columns}
                order == np_unique_rows({RowOf(ln) : ln \in data})
            IN  /\ pr_data' = [i \in 1 .. Len(order) |->
                                 [w |-> num_columns, t |-> order[i][1], v |-> order[i][2]]]
                /\ pr_pc' = "loaded"
                /\ UNCHANGED <<pr_reader, pr_lines, pr_error>>

-----------------------------------------------------------------------------
(* psi4_fft_to_strain against the input directory: find_file_for_l for     *)
(* each l, the except clause around read_psi4_dir, then the integration    *)
(* and the output file.  An exception is [cls, text, names, cause]: its    *)
(* class, the fixed part of its message, what the message names, and the   *)
(* exception it was raised from.                                           *)

\* Python's built-in exception hierarchy, as far as it is used here
\* (IOError is an alias of OSError)
BaseOf(cls) ==
  CASE cls = "FileNotFoundError" -> "OSError"
    [] cls = "OSError" -> "Exception"
    [] cls = "ValueError" -> "Exception"
    [] OTHER -> "BaseException"

IsSubclass(cls, of) ==
  cls = of \/ BaseOf(cls) = of \/ BaseOf(BaseOf(cls)) = of

\* a plausible slip: the except clause matching the exact class only
except_matches_exact(handler, cls) == handler = cls

\* "except <handler> as e" catches an exception of class cls
except_matches(handler, cls) == IsSubclass(cls, handler)

NoCause == <<>>

\* daisychain.py:38  FileNotFoundError(f"File with mode ell{ell} not found.")
FileNotFound(ell) ==
  [cls |-> "FileNotFoundError", text |-> "File with mode ell{ell} not found.",
   names |-> [kind |-> "ell", value |-> ell], cause |-> NoCause]

\* daisychain.py:321  IOError(f"Error reading PSI4 data: {e}") from e
ErrorReading(e) ==
  [cls |-> "OSError", text |-> "Error reading PSI4 data: {e}",
   names |-> e.names, cause |-> <<e>>]

FsIdle ==
  /\ fs_pc = "idle"
  /\ fs_listdir = {}
  /\ fs_l = 0
  /\ fs_opened = <<>>
  /\ fs_exc = <<>>
  /\ fs_strain = FALSE
  /\ fs_written = FALSE

FsInit ==
  /\ fs_pc = "read"
  /\ fs_listdir \in SUBSET (ELL_MIN .. ELL_MAX)
  /\ fs_l = ELL_MIN
  /\ fs_opened = <<>>
  /\ fs_exc = <<>>
  /\ fs_strain = FALSE
  /\ fs_written = FALSE

\* daisychain.py:54-57 with find_file_for_l (26-38): one iteration of
\* read_psi4_dir's loop over l; the exception leaves read_psi4_dir
FindFileForL ==
  /\ fs_pc = "read"
  /\ fs_l <= ELL_MAX
  /\ IF fs_l \in fs_listdir
       THEN /\ fs_opened' = Append(fs_opened, [kind |-> "path", value |-> fs_l])
            /\ fs_l' = fs_l + 1
            /\ UNCHANGED <<fs_pc, fs_exc>>
       ELSE /\ fs_exc' = <<FileNotFound(fs_l)>>
            /\ fs_pc' = "except"
            /\ UNCHANGED <<fs_opened, fs_l>>
  /\ UNCHANGED <<fs_listdir, fs_strain, fs_written>>

\* daisychain.py:318-321  try: read_psi4_dir() except IOError as e: raise IOError(...) from e
ExceptIOError ==
  /\ fs_pc = "except"
  /\ fs_exc' = IF except_matches("OSError", fs_exc[1].cls)
                 THEN <<ErrorReading(fs_exc[1])>> ELSE fs_exc
  /\ fs_pc' = "raised"
  /\ UNCHANGED <<fs_listdir, fs_l, fs_opened, fs_strain, fs_written>>

\* daisychain.py:319  read_psi4_dir has returned
FsReadReturn ==
  /\ fs_pc = "read"
  /\ fs_l > ELL_MAX
  /\ fs_pc' = "integrate"
  /\ UNCHANGED <<fs_listdir, fs_l, fs_opened, fs_exc, fs_strain, fs_written>>

\* daisychain.py:323-357  the cutoff and the loop over the modes
FsIntegrate ==
  /\ fs_pc = "integrate"
  /\ fs_strain' = TRUE
  /\ fs_pc' = "write"
  /\ UNCHANGED <<fs_listdir, fs_l, fs_opened, fs_exc, fs_written>>

\* daisychain.py:359-362  arrays_to_txt(..., "psi4_conv_to_strain.csv", OUTPUT_DIR); return
FsWrite ==
  /\ fs_pc = "write"
  /\ fs_written' = TRUE
  /\ fs_pc' = "done"
  /\ UNCHANGED <<fs_listdir, fs_l, fs_opened, fs_exc, fs_strain>>

-----------------------------------------------------------------------------
(* One call of first_time_derivative or second_time_derivative *)

DvIdle ==
  /\ dv_pc = "idle"
  /\ dv_fn = "none"
  /\ dv_time = <<>>
  /\ dv_data = <<>>
  /\ dv_ret = <<>>

DvInit ==
  /\ dv_pc = "call"
  /\ dv_fn \in {"first_time_derivative", "second_time_derivative"}
  /\ \E n \in 1 .. MaxDerivLen, t0 \in {RInt(0), RInt(1)}, dt \in DerivDtValues :
       /\ dv_time = DerivGrid(n, t0, dt)
       /\ dv_data \in [1 .. n -> DataValues] \cup PolyData(DerivGrid(n, t0, dt))
  /\ dv_ret = <<>>

\* daisychain.py:136-163
FirstTimeDerivative ==
  /\ dv_pc = "call"
  /\ dv_fn = "first_time_derivative"
  /\ IF Len(dv_data) < MinSamples(dv_fn)
       THEN \* time[1] of a one-element array: IndexError
            dv_pc' = "error" /\ UNCHANGED dv_ret
       ELSE /\ dv_ret' = <<first_time_derivative(dv_time, dv_data)>>
            /\ dv_pc' = "returned"
  /\ UNCHANGED <<dv_fn, dv_time, dv_data>>

\* daisychain.py:166-197
SecondTimeDerivative ==
  /\ dv_pc = "call"
  /\ dv_fn = "second_time_derivative"
  /\ IF Len(dv_data) < MinSamples(dv_fn)
       THEN \* time[1], data[2] or data[3] past the end: IndexError
            dv_pc' = "error" /\ UNCHANGED dv_ret
       ELSE /\ dv_ret' = <<second_time_derivative(dv_time, dv_data)>>
            /\ dv_pc' = "returned"
  /\ UNCHANGED <<dv_fn, dv_time, dv_data>>

-----------------------------------------------------------------------------
(* The phase-unwrapping loop and the return of its function *)

PhIdle ==
  /\ ph_pc = "idle"
  /\ ph_variant = "none"
  /\ phases = <<>>
  /\ ph_i = 0
  /\ cycles = 0
  /\ last_phase = 0
  /\ cum_phase = <<>>
  /\ ph_ret = <<>>

\* cycles = 0; last_phase = phases[0]
PhInit ==
  /\ ph_pc = "loop"
  /\ ph_variant \in UnwrapVariants
  /\ phases \in PhaseInputs
  /\ ph_i = 1
  /\ cycles = 0
  /\ last_phase = phases[1]
  /\ cum_phase = <<>>
  /\ ph_ret = <<>>

\* one iteration of "for i, ph in enumerate(phases)"
UnwrapStep ==
  /\ ph_pc = "loop"
  /\ ph_i <= Len(phases)
  /\ LET ph == phases[ph_i]
         c == unwrap_cycles(ph_variant, cycles, ph, last_phase)
     IN  /\ cycles' = c
         /\ cum_phase' = Append(cum_phase, ph + 2 * PI * c)
         /\ last_phase' = ph
  /\ ph_i' = ph_i + 1
  /\ UNCHANGED <<ph_pc, ph_variant, phases, ph_ret>>

\* cum_phase_dt = first_time_derivative(time, cum_phase); return
PhaseReturn ==
  /\ ph_pc = "loop"
  /\ ph_i > Len(phases)
  /\ IF Len(phases) < MinSamples("first_time_derivative")
       THEN ph_pc' = "error" /\ UNCHANGED ph_ret
       ELSE /\ ph_ret' = <<[cum_phase |-> cum_phase,
                            cum_phase_dt |->
                              first_time_derivative(
                                TimeGrid(Len(cum_phase), RInt(1)),
                                [i \in 1 .. Len(cum_phase) |-> RInt(cum_phase[i])])]>>
            /\ ph_pc' = "returned"
  /\ UNCHANGED <<ph_variant, phases, ph_i, cycles, last_phase, cum_phase>>

-----------------------------------------------------------------------------
(* One call of swsh_summation_angles *)

SwIdle ==
  /\ sw_pc = "idle"
  /\ sw_mode_data = <<>>
  /\ sw_passed = <<>>
  /\ sYlm = <<>>
  /\ sw_ret = <<>>

SwInit ==
  /\ sw_pc = "call"
  /\ \E n_modes \in 1 .. MaxModes, n_times \in 1 .. MaxTimes, n_pts \in 1 .. MaxPts :
       /\ sw_mode_data \in [1 .. n_modes -> StrainSignals(n_times)]
       /\ sYlm \in [1 .. n_pts -> HarmonicRows(n_modes)]
  /\ sw_passed = sw_mode_data
  /\ sw_ret = <<>>

\* daisychain.py:376-382: the function assigns to no element of mode_data
SwshSummationAngles ==
  /\ sw_pc = "call"
  /\ sw_ret' = <<swsh_sum(sw_mode_data, sYlm)>>
  /\ sw_pc' = "returned"
  /\ UNCHANGED <<sw_mode_data, sw_passed, sYlm>>

-----------------------------------------------------------------------------
(* gen_wave_meshes (daisychain.py:462-538): the output directory is        *)
(* checked, psi4_fft_to_strain reads the mode files, computes the cutoff,  *)
(* integrates every mode and writes the strain file, then the modes are    *)
(* superposed at the mesh angles, interpolated to the mesh radii, and one  *)
(* mesh file is written per time sample.                                   *)

\* what curve_fit does: it returns an intercept c, or raises
GwFits == {[raised |-> FALSE, c |-> c] : c \in RunCValues}
          \cup {[raised |-> TRUE, c |-> RZero]}

\* what VTKOUT holds when the run starts
GwDirs == {{}, {<<"notes", 0>>}, {<<"state", 0>>, <<"state", 9>>}}

\* the sYlm values at the azimuth points: GwSY[a][k]
GwSY(n_modes) ==
  {[a \in 1 .. GwAziPts |-> [k \in 1 .. n_modes |-> Cx(Rat(k - a, 2), RInt(s))]] :
     s \in 0 .. 1}

\* a plausible slip: the loop stopped one value early
range_continues_short(i, stop) == i + 1 < stop - 1

\* for i in range(start, stop): after the iteration for i the loop goes on
\* to i + 1 unless that reaches stop
range_continues(i, stop) == i + 1 < stop

\* a plausible slip: a failed fit replaced by a zero intercept
intercept_of_quadratic_fit_fallback(fit) ==
  [raised |-> FALSE, value |-> intercept_magnitude(fit.c)]

\* daisychain.py:269-279  intercept_of_quadratic_fit: curve_fit's exception
\* is not caught; otherwise np.fabs(c) is returned
intercept_of_quadratic_fit(fit) ==
  IF fit.raised THEN [raised |-> TRUE, value |-> RZero]
                ELSE [raised |-> FALSE, value |-> intercept_magnitude(fit.c)]

Label(name, l, m) == [name |-> name, l |-> l, m |-> m]

NoRef == [obj |-> "none", row |-> 0]

GwIdle ==
  /\ gw_pc = "idle"
  /\ gw_ell_max = 0
  /\ gw_data_set = 0
  /\ gw_dt = RZero
  /\ gw_dir = {}
  /\ gw_out = {}
  /\ gw_heap = EmptyHeap
  /\ gw_fft_ref = NoRef
  /\ gw_l = 0
  /\ gw_m = 0
  /\ gw_mode_idx = 0
  /\ gw_cutoff = <<>>
  /\ gw_labels = <<>>
  /\ gw_log = <<>>
  /\ gw_fit = <<>>
  /\ gw_exc = "none"

GwInit ==
  /\ gw_pc = "check"
  /\ gw_ell_max \in RunEllValues
  /\ gw_data_set \in DataSets
  /\ gw_dt \in DtValues
  /\ gw_dir \in GwDirs
  /\ gw_out = {}
  /\ gw_heap = EmptyHeap
  /\ gw_fft_ref = NoRef
  /\ gw_l = 0
  /\ gw_m = 0
  /\ gw_mode_idx = 0
  /\ gw_cutoff = <<>>
  /\ gw_labels = <<>>
  /\ gw_log = <<>>
  /\ gw_fit = <<>>
  /\ gw_exc = "none"

\* daisychain.py:463-464  check_output_directory(VTKOUT)
GwCheckOutputDirectory(answer) ==
  /\ gw_pc = "check"
  /\ LET r == check_output_directory(gw_dir, answer)
     IN  /\ gw_dir' = r.files
         /\ gw_pc' = IF r.exited THEN "exited" ELSE "read"
         /\ gw_exc' = IF r.exited THEN "SystemExit" ELSE "none"
         /\ gw_l' = IF r.exited THEN gw_l ELSE ELL_MIN
  /\ gw_log' = Append(gw_log, <<"check", 0>>)
  /\ UNCHANGED <<gw_ell_max, gw_data_set, gw_dt, gw_out, gw_heap, gw_fft_ref,
                 gw_m, gw_mode_idx, gw_cutoff, gw_labels, gw_fit>>

\* daisychain.py:54-77  read_psi4_dir, one iteration of "for l in range(...)"
\* on a well-formed file; after the last one the arrays are returned
GwReadFile ==
  /\ gw_pc = "read"
  /\ gw_heap' = [gw_heap EXCEPT
       !["time_arr"] = TimeGrid(GwTimes, gw_dt),
       !["psi4_modes_data"] = @ \o RowsOfFile(gw_l, gw_data_set)]
  /\ gw_log' = Append(gw_log, <<"read", gw_l>>)
  /\ IF range_continues(gw_l, gw_ell_max + 1)
       THEN gw_l' = gw_l + 1 /\ UNCHANGED gw_pc
       ELSE gw_pc' = "cutoff" /\ UNCHANGED gw_l
  /\ UNCHANGED <<gw_ell_max, gw_data_set, gw_dt, gw_dir, gw_out, gw_fft_ref,
                 gw_m, gw_mode_idx, gw_cutoff, gw_labels, gw_fit, gw_exc>>

\* daisychain.py:323-338  extract_min_omega_ell2_m2 (the phases are unwrapped
\* into the new array cum_phase, the phase file is written, the quadratic is
\* fitted), freq_cutoff, the zeroed strain arrays, the loop variables.
\* phs is np.angle of the (2, 2) mode, fit what curve_fit does.
GwExtractMinOmega(phs, fit) ==
  /\ gw_pc = "cutoff"
  /\ gw_out' = gw_out \cup {"phase_amp_omega.txt"}
  /\ gw_fit' = <<fit>>
  /\ LET h1 == Store(gw_heap, Whole("cum_phase"), CumPhase(phs))
         min_omega_l2m2 == intercept_of_quadratic_fit(fit)
         zeros == [k \in 1 .. Len(h1["psi4_modes_data"]) |->
                     [i \in 1 .. Len(h1["psi4_modes_data"][k]) |-> CZero]]
     IN  IF min_omega_l2m2.raised
           THEN /\ gw_heap' = h1
                /\ gw_pc' = "raised"
                /\ gw_exc' = "RuntimeError"
                /\ UNCHANGED <<gw_cutoff, gw_labels, gw_mode_idx, gw_l, gw_m, gw_log>>
           ELSE /\ gw_cutoff' = <<freq_cutoff_of("daisychain", min_omega_l2m2.value)>>
                /\ gw_heap' = Store(Store(h1, Whole("strain_modes"), zeros),
                                    Whole("strain_modes_ddot"), zeros)
                /\ gw_labels' = <<Label("time", 0, 0)>>
                /\ gw_mode_idx' = 0
                /\ gw_l' = ELL_MIN
                /\ gw_m' = -ELL_MIN
                /\ gw_log' = Append(gw_log, <<"cutoff", 0>>)
                /\ gw_pc' = "integrate"
                /\ UNCHANGED gw_exc
  /\ UNCHANGED <<gw_ell_max, gw_data_set, gw_dt, gw_dir, gw_fft_ref>>

\* daisychain.py:339-357  one iteration of the loops over l and m
GwIntegrateMode ==
  /\ gw_pc = "integrate"
  /\ LET src == RowView("psi4_modes_data", get_index_from_modes(gw_l, gw_m, ELL_MIN))
         fref == np_fft_out(src)
         dst == RowView("strain_modes", gw_mode_idx)
     IN  \* fft_result = np.fft.fft(psi4_modes_data[...])
         \E h1 \in {Store(gw_heap, fref, np_fft(Load(gw_heap, src)))} :
         \* fft_result[i] *= ...
         \E h2 \in {Store(h1, fref, FilterBins(Load(h1, fref), FreqList(h1["time_arr"]),
                                              gw_cutoff[1]))} :
         \* strain_modes[mode_idx] = np.fft.ifft(fft_result)
         \E h3 \in {Store(h2, dst, np_ifft(Load(h2, fref)))} :
         \* strain_modes_ddot[mode_idx] = second_time_derivative(...)
           /\ gw_heap' = Store(h3, RowView("strain_modes_ddot", gw_mode_idx),
                               second_time_derivative_complex(h3["time_arr"], Load(h3, dst)))
           /\ gw_fft_ref' = fref
  /\ gw_labels' = Append(gw_labels, Label("mode", gw_l, gw_m))
  /\ gw_log' = Append(gw_log, <<"integrate", gw_mode_idx>>)
  /\ gw_mode_idx' = gw_mode_idx + 1
  /\ IF range_continues(gw_m, gw_l + 1)
       THEN /\ gw_m' = gw_m + 1
            /\ UNCHANGED <<gw_l, gw_pc>>
       ELSE IF range_continues(gw_l, gw_ell_max + 1)
         THEN /\ gw_l' = gw_l + 1
              /\ gw_m' = -(gw_l + 1)
              /\ UNCHANGED gw_pc
         ELSE /\ gw_pc' = "write"
              /\ UNCHANGED <<gw_l, gw_m>>
  /\ UNCHANGED <<gw_ell_max, gw_data_set, gw_dt, gw_dir, gw_out, gw_cutoff, gw_fit,
                 gw_exc>>

\* daisychain.py:360-362  arrays_to_txt(labels, ...); return time_arr, strain_modes
GwWriteStrain ==
  /\ gw_pc = "write"
  /\ gw_out' = gw_out \cup {"psi4_conv_to_strain.csv"}
  /\ gw_log' = Append(gw_log, <<"write", 0>>)
  /\ gw_pc' = "swsh"
  /\ UNCHANGED <<gw_ell_max, gw_data_set, gw_dt, gw_dir, gw_heap, gw_fft_ref,
                 gw_l, gw_m, gw_mode_idx, gw_cutoff, gw_labels, gw_fit, gw_exc>>

\* daisychain.py:476-493  the superposition at the azimuth points, the
\* target times, the interpolation to the mesh; sY is what sYlm returns
GwSuperpose(sY) ==
  /\ gw_pc = "swsh"
  /\ LET time_array == gw_heap["time_arr"]
         radius_values == np_linspace0(display_radius, GwRadPts)
     IN  \E summed \in {swsh_sum(gw_heap["strain_modes"], sY)} :
         \E strain_azi \in {[a \in 1 .. GwAziPts |->
                               [t \in 1 .. Len(time_array) |-> RealPart(summed[a][t])]]} :
         \E lerp_times \in {generate_interpolation_points(time_array, radius_values,
                                                          RInt(EXT_RAD))} :
           LET strain_to_mesh ==
                 [r \in 1 .. GwRadPts |-> [a \in 1 .. GwAziPts |->
                    [t \in 1 .. Len(time_array) |->
                       np_interp(lerp_times[r][t], time_array, strain_azi[a])]]]
           IN  gw_heap' = [gw_heap EXCEPT !["strain_azi"] = strain_azi,
                                          !["lerp_times"] = lerp_times,
                                          !["strain_to_mesh"] = strain_to_mesh]
  /\ gw_log' = Append(gw_log, <<"swsh", 0>>)
  /\ gw_mode_idx' = 0
  /\ gw_pc' = "mesh"
  /\ UNCHANGED <<gw_ell_max, gw_data_set, gw_dt, gw_dir, gw_out, gw_fft_ref,
                 gw_l, gw_m, gw_cutoff, gw_labels, gw_fit, gw_exc>>

\* daisychain.py:505-538  one iteration of "for time_idx in range(n_times)":
\* the mesh of the time sample is written to state{time_idx}.vtu
GwWriteMesh ==
  /\ gw_pc = "mesh"
  /\ gw_dir' = gw_dir \cup {<<"state", gw_mode_idx>>}
  /\ gw_log' = Append(gw_log, <<"mesh", gw_mode_idx>>)
  /\ gw_mode_idx' = gw_mode_idx + 1
  /\ gw_pc' = IF range_continues(gw_mode_idx, Len(gw_heap["time_arr"]))
                THEN "mesh" ELSE "done"
  /\ UNCHANGED <<gw_ell_max, gw_data_set, gw_dt, gw_out, gw_heap, gw_fft_ref,
                 gw_l, gw_m, gw_cutoff, gw_labels, gw_fit, gw_exc>>

-----------------------------------------------------------------------------
(* The check of the output directory before anything is written            *)
(* (daisychain.py:441-459, animation_main.py:392-401)                      *)

\* the largest number of files the directory holds
MaxFiles == 3

OdFileNames == {<<"state", k>> : k \in 1 .. MaxFiles}

OdIdle ==
  /\ od_pc = "idle"
  /\ od_script = "none"
  /\ od_exists = FALSE
  /\ od_files = {}
  /\ od_before = {}
  /\ od_answer = <<>>

OdInit ==
  /\ od_pc = "enter"
  /\ od_script \in {"daisychain", "animation_main"}
  /\ od_exists \in BOOLEAN
  /\ od_files \in SUBSET OdFileNames
  /\ ~od_exists => od_files = {}
  /\ od_before = od_files
  /\ od_answer = <<>>

\* daisychain.py:449-453  os.makedirs(..., exist_ok=True), os.listdir, the
\* prompt; animation_main.py:392-394, 400-401  os.path.exists, the prompt,
\* or os.makedirs
OdEnter ==
  /\ od_pc = "enter"
  /\ od_pc' = IF asks_to_overwrite(od_script, od_exists, od_files)
                THEN "prompt" ELSE "returned"
  /\ od_exists' = TRUE
  /\ UNCHANGED <<od_script, od_files, od_before, od_answer>>

\* daisychain.py:454-459, animation_main.py:331-335, 395-398  the answer is
\* read; the script exits, or starts to remove the files
OdAnswer(answer) ==
  /\ od_pc = "prompt"
  /\ od_answer' = <<answer>>
  /\ od_pc' = IF overwrite_confirmed(od_script, answer)
                THEN (IF od_files = {} THEN "returned" ELSE "remove")
                ELSE "exited"
  /\ UNCHANGED <<od_script, od_exists, od_files, od_before>>

\* daisychain.py:455-456, animation_main.py:398-399  one iteration of
\* "for file in os.listdir(...): os.remove(...)"; os.listdir gives the
\* files in no particular order
OdRemove(file) ==
  /\ od_pc = "remove"
  /\ file \in od_files
  /\ od_files' = od_files \ {file}
  /\ od_pc' = IF od_files' = {} THEN "returned" ELSE "remove"
  /\ UNCHANGED <<od_script, od_exists, od_before, od_answer>>

-----------------------------------------------------------------------------
(* generate_interpolation_points: both versions run on the same input      *)

\* the largest numbers of time samples and of mesh radii
MaxLerpTimes == 3

MaxLerpRadii == 3

LerpTimeArrays ==
  {DerivGrid(n, RInt(t0), dt) : n \in 1 .. MaxLerpTimes, t0 \in {0, 2}, dt \in DerivDtValues}

\* np.linspace(0, display_radius, n_rad_pts)
LerpRadiusArrays == {np_linspace0(stop, num) : stop \in {2, 3}, num \in 2 .. MaxLerpRadii}

LerpExtRadii == {RInt(0), RInt(1), Rat(3, 2), RInt(3)}

LpIdle ==
  /\ lp_pc = "idle"
  /\ lp_time = <<>>
  /\ lp_radius = <<>>
  /\ lp_r_ext = RZero
  /\ lp_vec = <<>>
  /\ lp_state = 0
  /\ lp_j = 0
  /\ lp_target = <<>>
  /\ lp_loop_done = FALSE

\* gen-wave-meshes.py:109-111  target_times = np.zeros(...)
LpInit ==
  /\ lp_pc = "run"
  /\ lp_time \in LerpTimeArrays
  /\ lp_radius \in LerpRadiusArrays
  /\ lp_r_ext \in LerpExtRadii
  /\ lp_vec = <<>>
  /\ lp_state = 0
  /\ lp_j = 0
  /\ lp_target = np_zeros2(Len(lp_time), Len(lp_radius))
  /\ lp_loop_done = FALSE

\* daisychain.py:400-406, animation_main.py:85-91
LpVectorized ==
  /\ lp_pc = "run"
  /\ lp_vec = <<>>
  /\ lp_vec' = <<generate_interpolation_points(lp_time, lp_radius, lp_r_ext)>>
  /\ lp_pc' = IF lp_loop_done THEN "returned" ELSE "run"
  /\ UNCHANGED <<lp_time, lp_radius, lp_r_ext, lp_state, lp_j, lp_target, lp_loop_done>>

\* gen-wave-meshes.py:112-120  one iteration of the inner loop; after the
\* last one target_times is returned
LpLoopStep ==
  /\ lp_pc = "run"
  /\ ~lp_loop_done
  /\ lp_target' = [lp_target EXCEPT ![lp_state + 1][lp_j + 1] =
       loop_target_time(lp_time[lp_state + 1], lp_radius[lp_j + 1], lp_r_ext,
                        SeqMin(lp_time), SeqMax(lp_time))]
  /\ IF range_continues(lp_j, Len(lp_radius))
       THEN /\ lp_j' = lp_j + 1
            /\ UNCHANGED <<lp_state, lp_loop_done, lp_pc>>
       ELSE IF range_continues(lp_state, Len(lp_time))
         THEN /\ lp_state' = lp_state + 1
              /\ lp_j' = 0
              /\ UNCHANGED <<lp_loop_done, lp_pc>>
         ELSE /\ lp_loop_done' = TRUE
              /\ lp_pc' = IF lp_vec # <<>> THEN "returned" ELSE "run"
              /\ UNCHANGED <<lp_state, lp_j>>
  /\ UNCHANGED <<lp_time, lp_radius, lp_r_ext, lp_vec>>

-----------------------------------------------------------------------------
(* animation_main.py: the anim generator that mlab.animate drives *)

MaxAnimTimes == 10

MaxSaveRate == 4

\* animation_main.py:439  n_frames = int(n_times / save_rate)
frames_of(times, rate) == times \div rate

\* animation_main.py:583  the test that guards the exit branch
is_last_frame(idx, frames, rate) == idx >= (frames * rate) - 1

AnIdle ==
  /\ an_pc = "idle"
  /\ an_n_times = 0
  /\ save_rate = 0
  /\ n_frames = 0
  /\ time_idx = 0
  /\ an_saved = <<>>
  /\ an_movies = 0

\* animation_main.py:438-439, 595  anim() is created; range(n_times) starts at 0
AnInit ==
  /\ an_pc = "loop"
  /\ an_n_times \in 1 .. MaxAnimTimes
  /\ save_rate \in 1 .. MaxSaveRate
  /\ n_frames = frames_of(an_n_times, save_rate)
  /\ time_idx = 0
  /\ an_saved = <<>>
  /\ an_movies = 0

\* animation_main.py:523-525  an iteration that is skipped by continue
AnimSkip ==
  /\ an_pc = "loop"
  /\ time_idx < an_n_times
  /\ time_idx % save_rate # 0
  /\ time_idx' = time_idx + 1
  /\ UNCHANGED <<an_pc, an_n_times, save_rate, n_frames, an_saved, an_movies>>

\* animation_main.py:523-594  an iteration that saves a frame, and then either
\* creates the movie and exits or yields to the next iteration
AnimFrame ==
  /\ an_pc = "loop"
  /\ time_idx < an_n_times
  /\ time_idx % save_rate = 0
  /\ an_saved' = Append(an_saved, time_idx \div save_rate)
  /\ IF is_last_frame(time_idx, n_frames, save_rate)
       THEN /\ an_movies' = an_movies + 1
            /\ an_pc' = "exited"
            /\ UNCHANGED time_idx
       ELSE /\ time_idx' = time_idx + 1
            /\ UNCHANGED <<an_movies, an_pc>>
  /\ UNCHANGED <<an_n_times, save_rate, n_frames>>

\* animation_main.py:523, 595-596  range(n_times) is exhausted: the generator
\* returns, the animation stops and mlab.show() keeps the window open
AnimLoopEnds ==
  /\ an_pc = "loop"
  /\ time_idx = an_n_times
  /\ an_pc' = "finished"
  /\ UNCHANGED <<an_n_times, save_rate, n_frames, time_idx, an_saved, an_movies>>

-----------------------------------------------------------------------------
(* gen-gw-main.py: the module-level loops that fill t_array and write the  *)
(* meshes                                                                   *)

MaxGmTimes == 4

MaxGmRadii == 4

\* gen-gw-main.py:19  R_ext = 100
R_ext == 100

\* the time column after np.unique(strain_data, axis=0): ascending
GmTimeArrays ==
  {DerivGrid(n, RInt(t0), RInt(dt)) : n \in 1 .. MaxGmTimes, t0 \in {0, 50}, dt \in {100, 150}}

\* gen-gw-main.py:106  radius_values = np.linspace(0, display_radius, numRadius)
GmRadiusArrays == {np_linspace0(display_radius, num) : num \in 2 .. MaxGmRadii}

\* for state, x in enumerate(seq, start): after the iteration for state the
\* loop goes on to state + 1 unless seq is used up
enumerate_continues(state, start, len) == (state - start) + 1 < len

\* a[index] on an array of rows rows: negative indices count from the end,
\* anything outside -rows .. rows - 1 raises IndexError
index_in_bounds(index, rows) == -rows <= index /\ index < rows

GmIdle ==
  /\ gm_pc = "idle"
  /\ gm_h_time = <<>>
  /\ gm_h_strain = <<>>
  /\ gm_radius = <<>>
  /\ t_array = <<>>
  /\ h_array = <<>>
  /\ gm_state = 0
  /\ gm_j = 0
  /\ gm_access = <<>>
  /\ gm_filled = {}
  /\ gm_files = {}

\* gen-gw-main.py:96-116  a non-empty strain file has been read, t_array is
\* all zeros and the first loop is at its first iteration, state = 1
GmInit ==
  /\ gm_pc = "fill"
  /\ gm_h_time \in GmTimeArrays
  /\ gm_h_strain = [k \in 1 .. Len(gm_h_time) |-> Cx(RInt(k), RInt(1 - k))]
  /\ gm_radius \in GmRadiusArrays
  /\ t_array = np_zeros2(Len(gm_h_time), Len(gm_radius))
  /\ h_array = <<>>
  /\ gm_state = 1
  /\ gm_j = 0
  /\ gm_access = <<>>
  /\ gm_filled = {}
  /\ gm_files = {}

\* gen-gw-main.py:116-124  one iteration of the inner loop of the first
\* loop; after the last one h_array is interpolated from t_array
GmFill ==
  /\ gm_access' = Append(gm_access, [array |-> "t_array", index |-> gm_state])
  /\ UNCHANGED <<gm_h_time, gm_h_strain, gm_radius, gm_files>>
  /\ IF ~index_in_bounds(gm_state, Len(t_array))
       THEN /\ gm_pc' = "raised"
            /\ UNCHANGED <<t_array, h_array, gm_state, gm_j, gm_filled>>
       ELSE /\ t_array' = [t_array EXCEPT ![gm_state + 1][gm_j + 1] =
                 loop_target_time(gm_h_time[gm_state], gm_radius[gm_j + 1], RInt(R_ext),
                                  SeqMin(gm_h_time), SeqMax(gm_h_time))]
            /\ gm_filled' = gm_filled \cup {gm_state}
            /\ IF range_continues(gm_j, Len(gm_radius))
                 THEN /\ gm_j' = gm_j + 1
                      /\ UNCHANGED <<gm_state, gm_pc, h_array>>
                 ELSE IF enumerate_continues(gm_state, 1, Len(gm_h_time))
                   THEN /\ gm_state' = gm_state + 1
                        /\ gm_j' = 0
                        /\ UNCHANGED <<gm_pc, h_array>>
                   ELSE /\ h_array' = [i \in 1 .. Len(t_array) |->
                             [j \in 1 .. Len(gm_radius) |->
                                np_interp(t_array'[i][j], gm_h_time, gm_h_strain)]]
                        /\ gm_pc' = "main"
                        /\ gm_state' = 1
                        /\ gm_j' = 0

\* gen-gw-main.py:128-196  one iteration of the main loop: the rows of
\* h_array are read for every radius and state{state}.vtu is written
GmMain ==
  /\ gm_access' = Append(gm_access, [array |-> "h_array", index |-> gm_state])
  /\ UNCHANGED <<gm_h_time, gm_h_strain, gm_radius, t_array, h_array, gm_j, gm_filled>>
  /\ IF ~index_in_bounds(gm_state, Len(h_array))
       THEN /\ gm_pc' = "raised"
            /\ UNCHANGED <<gm_state, gm_files>>
       ELSE /\ gm_files' = gm_files \cup {gm_state}
            /\ IF enumerate_continues(gm_state, 1, Len(gm_h_time))
                 THEN gm_state' = gm_state + 1 /\ UNCHANGED gm_pc
                 ELSE gm_pc' = "done" /\ UNCHANGED gm_state

\* gen-gw-main.py:116-196  the next step of the script
GmStep ==
  /\ gm_pc \in {"fill", "main"}
  /\ IF gm_pc = "fill" THEN GmFill ELSE GmMain

-----------------------------------------------------------------------------
(* Specifications: one per component; the other components stay idle *)

SpecIndexInit == IxInit /\ RdIdle /\ FfIdle /\ RunIdle /\ PrIdle /\ FsIdle /\ DvIdle /\ PhIdle /\ SwIdle /\ GwIdle /\ OdIdle /\ LpIdle /\ AnIdle /\ GmIdle
SpecIndexNext == IndexStep /\ UNCHANGED notIxVars
SpecIndex == SpecIndexInit /\ [][SpecIndexNext]_vars

SpecReaderInit == RdInit /\ IxIdle /\ FfIdle /\ RunIdle /\ PrIdle /\ FsIdle /\ DvIdle /\ PhIdle /\ SwIdle /\ GwIdle /\ OdIdle /\ LpIdle /\ AnIdle /\ GmIdle
SpecReaderNext ==
  \/ (\E lines \in FileContents : ReadPsi4DirFile(lines)) /\ UNCHANGED notRdVars
  \/ (\E lines \in FileContents : ReadStrainFile(lines)) /\ UNCHANGED notRdVars
  \/ (\E lines \in FileContents : ReadModesDataFile(lines)) /\ UNCHANGED notRdVars
  \/ (\E lines \in FileContents : ReadPsi4File(lines)) /\ UNCHANGED notRdVars
  \/ (\E rows \in StrainFileContents : InitializeFile(rows)) /\ UNCHANGED notRdVars
  \/ ReaderReturn /\ UNCHANGED notRdVars
SpecReader == SpecReaderInit /\ [][SpecReaderNext]_vars

SpecFFIInit == FfInit /\ IxIdle /\ RdIdle /\ RunIdle /\ PrIdle /\ FsIdle /\ DvIdle /\ PhIdle /\ SwIdle /\ GwIdle /\ OdIdle /\ LpIdle /\ AnIdle /\ GmIdle
SpecFFINext ==
  \/ ForwardFFT /\ UNCHANGED notFfVars
  \/ FilterBin /\ UNCHANGED notFfVars
  \/ InverseFFT /\ UNCHANGED notFfVars
SpecFFI == SpecFFIInit /\ [][SpecFFINext]_vars

SpecRunInit == RunInit /\ IxIdle /\ RdIdle /\ FfIdle /\ PrIdle /\ FsIdle /\ DvIdle /\ PhIdle /\ SwIdle /\ GwIdle /\ OdIdle /\ LpIdle /\ AnIdle /\ GmIdle
SpecRunNext ==
  \/ RunReadDir /\ UNCHANGED notRunVars
  \/ (\E c \in RunCValues : RunExtractMinOmega(c)) /\ UNCHANGED notRunVars
  \/ RunIntegrateMode /\ UNCHANGED notRunVars
  \/ RunWriteStrain /\ UNCHANGED notRunVars
  \/ UtilReadInput /\ UNCHANGED notRunVars
  \/ (\E c \in RunCValues : UtilIntegrationMode(c)) /\ UNCHANGED notRunVars
  \/ (\E c \in RunCValues : UtilToStrainAzimuth(c)) /\ UNCHANGED notRunVars
SpecRun == SpecRunInit /\ [][SpecRunNext]_vars

SpecParseInit == PrInit /\ IxIdle /\ RdIdle /\ FfIdle /\ RunIdle /\ FsIdle /\ DvIdle /\ PhIdle /\ SwIdle /\ GwIdle /\ OdIdle /\ LpIdle /\ AnIdle /\ GmIdle
SpecParseNext ==
  \/ ParsePsi4DirFile /\ UNCHANGED notPrVars
  \/ LoadData /\ UNCHANGED notPrVars
SpecParse == SpecParseInit /\ [][SpecParseNext]_vars

SpecFilesInit == FsInit /\ IxIdle /\ RdIdle /\ FfIdle /\ RunIdle /\ PrIdle /\ DvIdle /\ PhIdle /\ SwIdle /\ GwIdle /\ OdIdle /\ LpIdle /\ AnIdle /\ GmIdle
SpecFilesNext ==
  \/ FindFileForL /\ UNCHANGED notFsVars
  \/ ExceptIOError /\ UNCHANGED notFsVars
  \/ FsReadReturn /\ UNCHANGED notFsVars
  \/ FsIntegrate /\ UNCHANGED notFsVars
  \/ FsWrite /\ UNCHANGED notFsVars
SpecFiles == SpecFilesInit /\ [][SpecFilesNext]_vars

SpecDerivInit == DvInit /\ IxIdle /\ RdIdle /\ FfIdle /\ RunIdle /\ PrIdle /\ FsIdle /\ PhIdle /\ SwIdle /\ GwIdle /\ OdIdle /\ LpIdle /\ AnIdle /\ GmIdle
SpecDerivNext ==
  \/ FirstTimeDerivative /\ UNCHANGED notDvVars
  \/ SecondTimeDerivative /\ UNCHANGED notDvVars
SpecDeriv == SpecDerivInit /\ [][SpecDerivNext]_vars

SpecPhaseInit ==
  PhInit /\ IxIdle /\ RdIdle /\ FfIdle /\ RunIdle /\ PrIdle /\ FsIdle /\ DvIdle /\ SwIdle /\ GwIdle /\ OdIdle /\ LpIdle /\ AnIdle /\ GmIdle
SpecPhaseNext ==
  \/ UnwrapStep /\ UNCHANGED notPhVars
  \/ PhaseReturn /\ UNCHANGED notPhVars
SpecPhase == SpecPhaseInit /\ [][SpecPhaseNext]_vars

SpecSwshInit ==
  SwInit /\ IxIdle /\ RdIdle /\ FfIdle /\ RunIdle /\ PrIdle /\ FsIdle /\ DvIdle /\ PhIdle /\ GwIdle /\ OdIdle /\ LpIdle /\ AnIdle /\ GmIdle
SpecSwshNext == SwshSummationAngles /\ UNCHANGED notSwVars
SpecSwsh == SpecSwshInit /\ [][SpecSwshNext]_vars

SpecMeshesInit == GwInit /\ IxIdle /\ RdIdle /\ FfIdle /\ RunIdle /\ PrIdle /\ FsIdle /\ DvIdle /\ PhIdle /\ SwIdle /\ OdIdle /\ LpIdle /\ AnIdle /\ GmIdle
SpecMeshesNext ==
  \/ (\E answer \in Answers : GwCheckOutputDirectory(answer)) /\ UNCHANGED notGwVars
  \/ GwReadFile /\ UNCHANGED notGwVars
  \/ (\E phs \in GwPhases, fit \in GwFits : GwExtractMinOmega(phs, fit))
       /\ UNCHANGED notGwVars
  \/ GwIntegrateMode /\ UNCHANGED notGwVars
  \/ GwWriteStrain /\ UNCHANGED notGwVars
  \/ (\E sY \in GwSY(Len(gw_heap["strain_modes"])) : GwSuperpose(sY))
       /\ UNCHANGED notGwVars
  \/ GwWriteMesh /\ UNCHANGED notGwVars
SpecMeshes == SpecMeshesInit /\ [][SpecMeshesNext]_vars

SpecOutputDirInit == OdInit /\ IxIdle /\ RdIdle /\ FfIdle /\ RunIdle /\ PrIdle /\ FsIdle /\ DvIdle /\ PhIdle /\ SwIdle /\ GwIdle /\ LpIdle /\ AnIdle /\ GmIdle
SpecOutputDirNext ==
  \/ OdEnter /\ UNCHANGED notOdVars
  \/ (\E answer \in Answers : OdAnswer(answer)) /\ UNCHANGED notOdVars
  \/ (\E file \in OdFileNames : OdRemove(file)) /\ UNCHANGED notOdVars
SpecOutputDir == SpecOutputDirInit /\ [][SpecOutputDirNext]_vars

SpecLerpInit == LpInit /\ IxIdle /\ RdIdle /\ FfIdle /\ RunIdle /\ PrIdle /\ FsIdle /\ DvIdle /\ PhIdle /\ SwIdle /\ GwIdle /\ OdIdle /\ AnIdle /\ GmIdle
SpecLerpNext ==
  \/ LpVectorized /\ UNCHANGED notLpVars
  \/ LpLoopStep /\ UNCHANGED notLpVars
SpecLerp == SpecLerpInit /\ [][SpecLerpNext]_vars

SpecAnimInit == AnInit /\ IxIdle /\ RdIdle /\ FfIdle /\ RunIdle /\ PrIdle /\ FsIdle /\ DvIdle /\ PhIdle /\ SwIdle /\ GwIdle /\ OdIdle /\ LpIdle /\ GmIdle
SpecAnimNext ==
  \/ AnimSkip /\ UNCHANGED notAnVars
  \/ AnimFrame /\ UNCHANGED notAnVars
  \/ AnimLoopEnds /\ UNCHANGED notAnVars
\* the timer of mlab.animate resumes the generator after every yield
SpecAnim == SpecAnimInit /\ [][SpecAnimNext]_vars /\ WF_vars(SpecAnimNext)

SpecGwMainInit == GmInit /\ IxIdle /\ RdIdle /\ FfIdle /\ RunIdle /\ PrIdle /\ FsIdle /\ DvIdle /\ PhIdle /\ SwIdle /\ GwIdle /\ OdIdle /\ LpIdle /\ AnIdle
SpecGwMainNext == GmStep /\ UNCHANGED notGmVars
SpecGwMain == SpecGwMainInit /\ [][SpecGwMainNext]_vars

-----------------------------------------------------------------------------
(* C6: get_index_from_modes is a bijection from                            *)
(* {(l, m) : l_min <= l <= l_max, -l <= m <= l} onto                        *)
(* 0 .. (l_max+1)^2 - l_min^2 - 1: the indices computed by the loop are     *)
(* pairwise distinct and inside that range, the finished loop has produced  *)
(* every integer of the range, and index(3, 1, 2) = 9.                      *)

IxRange == 0 .. ((ix_ell_max + 1) * (ix_ell_max + 1) - ix_ell_min * ix_ell_min - 1)

IxImage == {ix_table[i].idx : i \in 1 .. Len(ix_table)}

C6_IndexBijection ==
  /\ \A i \in 1 .. Len(ix_table) : ix_table[i].idx \in IxRange
  /\ \A i, j \in 1 .. Len(ix_table) :
       ix_table[i].idx = ix_table[j].idx => i = j
  /\ ix_pc = "done" => IxImage = IxRange
  /\ \A i \in 1 .. Len(ix_table) :
       (ix_ell_min = 2 /\ ix_table[i].l = 3 /\ ix_table[i].m = 1)
         => ix_table[i].idx = 9

\* the l_min = 2, l_max = 8 loop has finished and holds the (3, 1) entry
C6_Witness ==
  /\ ix_pc = "done"
  /\ ix_ell_min = ELL_MIN
  /\ ix_ell_max = ELL_MAX
  /\ Len(ix_table) = 77
  /\ \E i \in 1 .. Len(ix_table) : ix_table[i].l = 3 /\ ix_table[i].m = 1

-----------------------------------------------------------------------------
(* What the Mode Reader claims are stated with: the file of l as it is on  *)
(* disk, its distinct times, and the first line holding a given time.      *)

FileOf(l) == rd_files[l - ELL_MIN + 1]

FilesRead == ELL_MIN .. (ELL_MIN + Len(rd_files) - 1)

NumDistinctTimes(l) == Cardinality(Range(FileOf(l)))

\* the i-th smallest distinct time of a file
NthTime(lines, i) ==
  CHOOSE t \in Range(lines) : Cardinality({u \in Range(lines) : u < t}) = i - 1

FirstLineWithTime(lines, t) ==
  CHOOSE r \in 1 .. Len(lines) : lines[r] = t /\ \A q \in 1 .. (r - 1) : lines[q] # t

\* the time found on the line a stored number was read from
TimeOfCell(cell) == FileOf(cell.file)[cell.line]

(* C7: after read_psi4_dir returns, for every l in ELL_MIN..ELL_MAX and    *)
(* every m in -l..l the entry of the returned mode table at position       *)
(* get_index_from_modes(l, m, ELL_MIN) is the complex series whose real    *)
(* part is column 1 + 2*(m + l) and whose imaginary part is column         *)
(* 2 + 2*(m + l) of the (sorted, deduplicated) rows of the file for l.     *)
C7_ModeTableColumns ==
  (rd_reader = "read_psi4_dir" /\ rd_pc = "done") =>
    /\ Len(rd_ret) = 1
    /\ Len(rd_ret[1].modes) =
         (rd_ell_max + 1) * (rd_ell_max + 1) - ELL_MIN * ELL_MIN
    /\ \A l \in ELL_MIN .. rd_ell_max : \A m \in -l .. l :
         LET entry == rd_ret[1].modes[get_index_from_modes(l, m, ELL_MIN) + 1]
             row(i) == FirstLineWithTime(FileOf(l), NthTime(FileOf(l), i))
         IN  /\ Len(entry) = NumDistinctTimes(l)
             /\ \A i \in 1 .. Len(entry) :
                  entry[i] = [re |-> Cell(l, row(i), 1 + 2 * (m + l)),
                              im |-> Cell(l, row(i), 2 + 2 * (m + l))]

\* read_psi4_dir has returned the table of three files, the first of which
\* had to be sorted
C7_Witness ==
  /\ rd_reader = "read_psi4_dir"
  /\ rd_pc = "done"
  /\ rd_ell_max = MaxReadEll
  /\ FileOf(ELL_MIN) = <<1, 0>>
  /\ Len(rd_ret[1].modes) = 21

C9_TimeValuesMustMatch ==
  rd_reader \in {"read_psi4_dir", "read_modes_data"} =>
    \A l \in FilesRead :
      (Len(FileOf(l)) > 0 /\ Range(FileOf(l)) # Range(FileOf(ELL_MIN))) =>
        rd_pc = "error"

(* C10: every reader returns, for each mode, a sample array aligned        *)
(* index-for-index with the returned time array: same length, and sample i *)
(* was read from a line whose time is time i.                              *)
AlignedWith(cells, time) ==
  /\ Len(cells) = Len(time)
  /\ \A i \in 1 .. Len(cells) : i <= Len(time) => TimeOfCell(cells[i]) = time[i]

C10_ModesAlignedWithTime ==
  rd_pc = "done" =>
    LET time == rd_ret[1].time
        modes == rd_ret[1].modes
    IN  CASE rd_reader = "read_psi4_dir" ->
               \A k \in 1 .. Len(modes) :
                 /\ AlignedWith([i \in 1 .. Len(modes[k]) |-> modes[k][i].re], time)
                 /\ AlignedWith([i \in 1 .. Len(modes[k]) |-> modes[k][i].im], time)
          [] rd_reader = "read_strain_files" ->
               \A k \in DOMAIN modes :
                 /\ AlignedWith([i \in 1 .. Len(modes[k]) |-> modes[k][i].re], time)
                 /\ AlignedWith([i \in 1 .. Len(modes[k]) |-> modes[k][i].im], time)
          [] rd_reader \in {"read_modes_data", "read_psi4"} ->
               \A k \in DOMAIN modes :
                 /\ AlignedWith(modes[k].real, time)
                 /\ AlignedWith(modes[k].imag, time)
          [] rd_reader = "initialize" -> Len(modes) = Len(time)

-----------------------------------------------------------------------------
(* What the FFI claims are stated with *)

\* -1 / x^2, computed directly
NegInvSquare(x) == CRecip(CReal(RNeg(RMul(x, x))))

FilteredBins == 1 .. Len(ff_factor)

(* C1: every bin of angular frequency w is multiplied by                   *)
(* 1/(i*w_eff)^2 = -1/max(|w|, |w_c|)^2, where the cutoff branch is taken  *)
(* exactly when |w| <= |w_c| (boundary included); the factor does not      *)
(* depend on the sign of w or of w_c, and daisychain's form (signed omega  *)
(* and freq_cutoff) gives the same factor as the util scripts' form        *)
(* (abs(omega) and omega_0 = |w_c|).                                       *)
C1_FilterFactor ==
  \A i \in FilteredBins :
    LET w == ff_freq_list[i]
        wc == ff_cutoff
        expected == NegInvSquare(RMax(RAbs(w), RAbs(wc)))
    IN  /\ ff_factor[i] = expected
        /\ ff_branch[i] = "cutoff" <=> RLeq(RAbs(w), RAbs(wc))
        /\ \A sw, sc \in {1, -1} :
             LET w2 == RMul(RInt(sw), w)
                 wc2 == RMul(RInt(sc), wc)
             IN  /\ daisychain_factor(w2, wc2) = expected
                 /\ daisychain_factor(w2, wc2) = util_factor(w2, RAbs(wc2))
                 /\ daisychain_in_cutoff_branch(w2, wc2)
                      <=> util_in_cutoff_branch(w2, RAbs(wc2))

\* daisychain's loop has filtered a negative-frequency bin lying exactly on a
\* nonzero cutoff (cutoff branch) and a bin above the cutoff (omega branch)
C1_Witness ==
  /\ ff_script = "daisychain"
  /\ ff_cutoff # RZero
  /\ \E i \in FilteredBins :
       /\ RAbs(ff_freq_list[i]) = ff_cutoff
       /\ ff_freq_list[i].n < 0
       /\ ff_branch[i] = "cutoff"
  /\ \E i \in FilteredBins : ff_branch[i] = "omega"

(* C2: the Integrator never divides by zero: for every bin, bin 0           *)
(* included, and every cutoff the Analyzer can return, the divisor          *)
(* (i*w_eff)^2 is nonzero.                                                  *)
C2_NeverDividesByZero == ff_divzero = FALSE

(* C5: for a psi4 mode that is a pure sinusoid A*exp(i*w*t) at an FFT bin  *)
(* with |w| above the cutoff the returned strain is -A*exp(i*w*t)/w^2      *)
(* (so strain * (i*w)^2 = psi4); factor(w) * (i*w)^2 = 1 for every bin     *)
(* above the cutoff, and every bin at or below it is scaled by             *)
(* -1/cutoff^2.                                                            *)
C5_Statement ==
  /\ \A i \in FilteredBins :
       LET w == ff_freq_list[i]
       IN  IF RLt(ff_cutoff, RAbs(w))
             THEN CMul(ff_factor[i], CSquare(CMul(CJ, CReal(w)))) = COne
             ELSE ff_factor[i] = NegInvSquare(ff_cutoff)
  /\ ff_pc = "done" =>
       \A A \in Amplitudes : \A k \in 0 .. Len(ff_psi4) - 1 :
         ff_psi4 = Sinusoid(Len(ff_psi4), A, k) =>
           LET w == ff_freq_list[k + 1]
           IN  \A j \in 1 .. Len(ff_psi4) :
                 IF RLt(ff_cutoff, RAbs(w))
                   THEN /\ ff_strain[j] = CMul(ff_psi4[j], NegInvSquare(w))
                        /\ CMul(ff_strain[j], CSquare(CMul(CJ, CReal(w)))) = ff_psi4[j]
                   ELSE ff_strain[j] = CMul(ff_psi4[j], NegInvSquare(ff_cutoff))

C5_SinusoidStrain == C5_Statement

\* C5 restricted to runs whose cutoff is not zero (no division by zero, C2)
C5_WithNonzeroCutoff == ff_cutoff # RZero => C5_Statement

\* a sinusoid above a nonzero cutoff has been integrated
C5_NonzeroCutoffReached ==
  /\ ff_pc = "done"
  /\ ff_cutoff # RZero
  /\ \E A \in Amplitudes : \E k \in 1 .. Len(ff_psi4) - 1 :
       /\ ff_psi4 = Sinusoid(Len(ff_psi4), A, k)
       /\ RLt(ff_cutoff, RAbs(ff_freq_list[k + 1]))
       /\ ff_strain[1].ok

-----------------------------------------------------------------------------
(* C3: in one run the frequency cutoff is computed exactly once, from the  *)
(* (l=2, m=2) mode, before the first mode is integrated, and that value is *)
(* used unchanged for every series that is integrated.                     *)
C3_Statement ==
  /\ Len(run_fits) <= 1
  /\ \A i \in 1 .. Len(run_applied) :
       /\ Len(run_fits) = 1
       /\ run_fits[1].source = Unit("mode", 2, 2)
       /\ run_applied[i].fit = 1
       /\ run_applied[i].cutoff = run_applied[1].cutoff

C3_CutoffComputedOnce == C3_Statement

\* C3 restricted to daisychain.psi4_fft_to_strain
C3_InDaisychain == run_script = "daisychain" => C3_Statement

(* C4 as claimed: the cutoff applied to every frequency bin is exactly the *)
(* |c| returned by the quadratic fit.                                      *)
C4_CutoffIsIntercept ==
  \A i \in 1 .. Len(run_applied) :
    run_applied[i].cutoff = RAbs(run_fits[run_applied[i].fit].c)

(* C4 amended: in daisychain the cutoff applied to every frequency bin of  *)
(* every mode is CUTTOFF_FACTOR (0.75) times the |c| returned by the       *)
(* quadratic fit of the (2,2) mode; the util scripts apply the |c| of      *)
(* their own fit unscaled.  Every bin's divisor is -(max(|w|, cutoff))^2   *)
(* for that cutoff.                                                        *)
C4_CutoffIsScaledIntercept ==
  \A i \in 1 .. Len(run_applied) :
    LET a == run_applied[i]
        c == run_fits[a.fit].c
        expected == IF run_script = "daisychain"
                      THEN RMul(CUTTOFF_FACTOR, RAbs(c)) ELSE RAbs(c)
    IN  /\ a.cutoff = expected
        /\ run_script = "daisychain" => run_fits[a.fit].source = Unit("mode", 2, 2)
        /\ \A b \in 1 .. Len(RunFreqList) :
             LET mx == RMax(RAbs(RunFreqList[b]), expected)
             IN  a.divisors[b] = CReal(RNeg(RMul(mx, mx)))

\* daisychain has integrated all twelve modes of l = 2, 3 with a cutoff that
\* came from a nonzero c
C4_Witness ==
  /\ run_script = "daisychain"
  /\ run_pc = "done"
  /\ Len(run_applied) = 12
  /\ run_fits[1].c # RZero
  /\ run_applied[12].cutoff # RAbs(run_fits[1].c)

-----------------------------------------------------------------------------
(* What the sort-and-deduplicate claims are stated with: the files whose   *)
(* rows a reader has stored, and the lines of the file those rows are.     *)

LoadedFiles ==
  CASE rd_reader = "read_psi4_dir" ->
         {l \in FilesRead :
            (l + 1) * (l + 1) - ELL_MIN * ELL_MIN <= Len(psi4_modes_data)}
    [] rd_reader = "read_psi4" ->
         {l \in FilesRead : <<l, -l>> \in DOMAIN mode_data}
    [] OTHER -> {}

KeptRows(l) ==
  CASE rd_reader = "read_psi4_dir" ->
         LET e == psi4_modes_data[get_index_from_modes(l, -l, ELL_MIN) + 1]
         IN  [i \in 1 .. Len(e) |-> e[i].re.line]
    [] rd_reader = "read_psi4" ->
         LET e == mode_data[<<l, -l>>].real
         IN  [i \in 1 .. Len(e) |-> e[i].line]

StrictlyIncreasing(x) == \A i \in 1 .. Len(x) - 1 : x[i] < x[i + 1]

(* C11: for every input file the rows the reader (read_psi4_dir,           *)
(* read_psi4) keeps are sorted by time with exactly one row per distinct   *)
(* time value, so the time array is strictly increasing, and the row kept  *)
(* for each time value is the first row with that time in the file.        *)
C11_Statement ==
  /\ \A l \in LoadedFiles :
       LET rows == KeptRows(l)
           times == [i \in 1 .. Len(rows) |-> FileOf(l)[rows[i]]]
       IN  /\ StrictlyIncreasing(times)
           /\ Range(times) = Range(FileOf(l))
           /\ \A i \in 1 .. Len(rows) : rows[i] = FirstLineWithTime(FileOf(l), times[i])
  /\ rd_pc = "done" => StrictlyIncreasing(rd_ret[1].time)

C11_InReadPsi4Dir == rd_reader = "read_psi4_dir" => C11_Statement

\* read_psi4_dir has returned after reading a file with a repeated time
C11_DuplicateTimeRead ==
  /\ rd_reader = "read_psi4_dir"
  /\ rd_pc = "done"
  /\ \E l \in FilesRead : Len(FileOf(l)) > NumDistinctTimes(l)

\* the time column of a file as it is on disk
TimeColumn(f) ==
  IF rd_reader = "initialize" THEN [i \in 1 .. Len(f) |-> f[i][1]] ELSE f

(* C12: the Mode Reader (read_psi4_dir, initialize) treats an input file    *)
(* whose time column is not strictly increasing as a fatal error: it       *)
(* raises and returns no time array or mode table for that input.          *)
C12_NonIncreasingTimeIsFatal ==
  rd_reader \in {"read_psi4_dir", "initialize"} =>
    \A i \in 1 .. Len(rd_files) :
      ~StrictlyIncreasing(TimeColumn(rd_files[i])) =>
        /\ rd_pc = "error"
        /\ rd_ret = <<>>

\* initialize has raised ValueError: two different rows share a time
C12_InitializeRaised ==
  /\ rd_reader = "initialize"
  /\ rd_pc = "error"
  /\ rd_error = "ValueError"

-----------------------------------------------------------------------------
\* the lines of the file whose column count is that of the first line
WellFormedLines == {ln \in Range(pr_lines) : ln.w = pr_lines[1].w}

(* C13: when a file contains data rows whose column count differs from     *)
(* that of the first data row, the reader (read_psi4_dir, load_data)       *)
(* drops exactly those rows and loads the remaining rows instead of        *)
(* failing on the whole file.                                              *)
C13_Statement ==
  (pr_pc # "parse" /\ Len(pr_lines) > 0 /\ Ragged(pr_lines)) =>
    /\ pr_pc = "loaded"
    /\ \A i \in 1 .. Len(pr_data) : pr_data[i].w = pr_lines[1].w
    /\ {RowOf(pr_data[i]) : i \in 1 .. Len(pr_data)}
         = {RowOf(ln) : ln \in WellFormedLines}

C13_MalformedRowsDropped == C13_Statement

\* C13 restricted to strain_plt_3.0.py's load_data
C13_InLoadData == pr_reader = "load_data" => C13_Statement

\* load_data has loaded a file from which it dropped a row
C13_LoadDataDropped ==
  /\ pr_reader = "load_data"
  /\ pr_pc = "loaded"
  /\ Ragged(pr_lines)
  /\ Len(pr_data) >= 2

-----------------------------------------------------------------------------
MissingEll == (ELL_MIN .. ELL_MAX) \ fs_listdir

FirstMissingEll == CHOOSE l \in MissingEll : \A k \in MissingEll : l <= k

FsEnded == fs_pc \in {"done", "raised"}

(* C14 as claimed: if the input directory holds no file for some l in      *)
(* ELL_MIN..ELL_MAX the run fails with a FileNotFoundError-class error     *)
(* that names the expected path, and this is the error the caller of       *)
(* psi4_fft_to_strain sees; no strain is computed and no output file is    *)
(* written.                                                                *)
C14_FileNotFoundNamesPath ==
  MissingEll # {} =>
    /\ ~fs_strain /\ ~fs_written
    /\ FsEnded =>
         /\ fs_pc = "raised"
         /\ IsSubclass(fs_exc[1].cls, "FileNotFoundError")
         /\ fs_exc[1].names.kind = "path"

(* C14 amended: if the input directory holds no file for some l in         *)
(* ELL_MIN..ELL_MAX, find_file_for_l raises FileNotFoundError whose        *)
(* message names the first missing l (not a path); psi4_fft_to_strain      *)
(* catches it and raises a new IOError (OSError, not a FileNotFoundError)  *)
(* from it, with the original message embedded, and that is the error the  *)
(* caller sees; the files of the smaller l have been opened, no strain is  *)
(* computed and no output file is written.                                 *)
C14_MissingFileRaisesIOError ==
  MissingEll # {} =>
    /\ ~fs_strain /\ ~fs_written
    /\ FsEnded =>
         /\ fs_pc = "raised"
         /\ fs_exc[1].cls = "OSError"
         /\ fs_exc[1].text = "Error reading PSI4 data: {e}"
         /\ fs_exc[1].names = [kind |-> "ell", value |-> FirstMissingEll]
         /\ fs_exc[1].cause = <<FileNotFound(FirstMissingEll)>>
         /\ Len(fs_opened) = FirstMissingEll - ELL_MIN

\* the files of l = 2, 3 were found, the file of l = 4 was not: the caller
\* has the exception
C14_Witness ==
  /\ fs_pc = "raised"
  /\ FirstMissingEll = ELL_MIN + 2
  /\ Len(fs_opened) = 2
  /\ Len(fs_exc) = 1

-----------------------------------------------------------------------------
(* What the finite-difference claims are stated with *)

DvDt == RSub(dv_time[2], dv_time[1])

DvN == Len(dv_data)

DvReturned(fn) == dv_fn = fn /\ dv_pc = "returned"

\* data[i] = a*t_i^2 + b*t_i + c for all i
IsPoly(a, b, c) == \A i \in 1 .. DvN : dv_data[i] = Poly(a, b, c, dv_time[i])

SquaresOnZeroToFour ==
  /\ dv_time = <<RInt(0), RInt(1), RInt(2), RInt(3), RInt(4)>>
  /\ dv_data = <<RInt(0), RInt(1), RInt(4), RInt(9), RInt(16)>>

(* C18: first_time_derivative on a uniform grid of spacing dt and N >= 2   *)
(* samples returns (data[i+1] - data[i-1]) / (2*dt) at every interior      *)
(* index i, (data[1] - data[0]) / dt at index 0 and                        *)
(* (data[N-1] - data[N-2]) / dt at index N-1; for data = t^2 on            *)
(* t = 0,1,2,3,4 the result is [1, 2, 4, 6, 7], and for data linear in t   *)
(* the result is the exact slope at every index.                           *)
C18_FirstDerivativeStencil ==
  /\ (dv_fn = "first_time_derivative" /\ dv_pc # "call" /\ DvN >= 2)
       => dv_pc = "returned"
  /\ DvReturned("first_time_derivative") =>
       LET out == dv_ret[1]
       IN  /\ Len(out) = DvN
           /\ \A i \in 2 .. DvN - 1 :
                RMul(out[i], RMul(RInt(2), DvDt)) = RSub(dv_data[i + 1], dv_data[i - 1])
           /\ RMul(out[1], DvDt) = RSub(dv_data[2], dv_data[1])
           /\ RMul(out[DvN], DvDt) = RSub(dv_data[DvN], dv_data[DvN - 1])
           /\ SquaresOnZeroToFour =>
                out = <<RInt(1), RInt(2), RInt(4), RInt(6), RInt(7)>>
           /\ \A b \in PolyCoeffs, c \in {0, 1} :
                IsPoly(0, b, c) => \A i \in 1 .. DvN : out[i] = RInt(b)

\* the docstring example has been computed
C18_Witness ==
  /\ DvReturned("first_time_derivative")
  /\ SquaresOnZeroToFour

(* C19: second_time_derivative returns the exact second derivative at      *)
(* every sample, both endpoints included, whenever data is a polynomial of *)
(* degree <= 2 in time on a uniform grid of at least 4 samples (t^2 on     *)
(* t = 0..4 gives 2 at all five points); it uses                           *)
(* (data[i-1] - 2*data[i] + data[i+1]) / dt^2 in the interior and the      *)
(* one-sided stencil (2, -5, 4, -1) / dt^2 at each end.                    *)
C19_SecondDerivativeExact ==
  /\ (dv_fn = "second_time_derivative" /\ dv_pc # "call" /\ DvN >= 4)
       => dv_pc = "returned"
  /\ DvReturned("second_time_derivative") =>
       LET out == dv_ret[1]
           dt2 == RMul(DvDt, DvDt)
           d(k) == dv_data[k]
           one_sided(a0, a1, a2, a3) ==
             RSub(RAdd(RSub(RMul(RInt(2), a0), RMul(RInt(5), a1)), RMul(RInt(4), a2)), a3)
       IN  /\ Len(out) = DvN
           /\ \A i \in 2 .. DvN - 1 :
                RMul(out[i], dt2) = RAdd(RSub(d(i - 1), RMul(RInt(2), d(i))), d(i + 1))
           /\ RMul(out[1], dt2) = one_sided(d(1), d(2), d(3), d(4))
           /\ RMul(out[DvN], dt2) = one_sided(d(DvN), d(DvN - 1), d(DvN - 2), d(DvN - 3))
           /\ SquaresOnZeroToFour =>
                out = <<RInt(2), RInt(2), RInt(2), RInt(2), RInt(2)>>
           /\ \A a \in {0, 1, -2}, b \in PolyCoeffs, c \in {0, 1} :
                IsPoly(a, b, c) => \A i \in 1 .. DvN : out[i] = RInt(2 * a)

\* a quadratic with a nonzero leading coefficient, not the docstring's, has
\* been differentiated twice on a grid of spacing other than 1
C19_Witness ==
  /\ DvReturned("second_time_derivative")
  /\ DvN >= 4
  /\ DvDt # ROne
  /\ \E b \in PolyCoeffs, c \in {0, 1} : IsPoly(-2, b, c)
  /\ dv_ret[1][1] = RInt(-4)

-----------------------------------------------------------------------------
(* What the phase-unwrapping claims are stated with *)

\* the samples the loop has handled
Handled == 1 .. Len(cum_phase)

Delta(i) == IF i = 1 THEN 0 ELSE phases[i] - phases[i - 1]

\* the counter of the claim after sample i: decremented when the delta
\* exceeds +pi, incremented when it is below -pi
RECURSIVE ClaimedCounter(_)
ClaimedCounter(i) ==
  IF i = 0 THEN 0
  ELSE ClaimedCounter(i - 1)
         + (IF Delta(i) > PI THEN -1 ELSE IF Delta(i) < -PI THEN 1 ELSE 0)

(* C15: for every phase sequence with values in [-pi, pi] the cumulative   *)
(* phase is the one defined by a signed cycle counter that is decremented  *)
(* exactly when the delta between consecutive samples exceeds +pi and      *)
(* incremented exactly when it is below -pi (strict comparisons, decided   *)
(* by the delta): cumulative phase = phase + 2*pi*counter at each sample.  *)
C15_Statement ==
  /\ cycles = ClaimedCounter(Len(cum_phase))
  /\ \A i \in Handled : cum_phase[i] = phases[i] + 2 * PI * ClaimedCounter(i)

C15_CounterDecidedByDelta ==
  ph_variant \in {"daisychain", "util_integration"} => C15_Statement

\* C15 restricted to util-psi4-FFT-integration.py's process_wave_data
C15_InUtilIntegration == ph_variant = "util_integration" => C15_Statement

\* the util loop has unwrapped a sequence that wraps
C15_UtilWrapped ==
  /\ ph_variant = "util_integration"
  /\ ph_pc = "returned"
  /\ cycles # 0

(* C16: for every phase sequence in which all consecutive deltas have      *)
(* magnitude strictly less than pi, each unwrap variant returns the input  *)
(* phases unchanged: the counter stays 0 and cumulative phase equals       *)
(* instantaneous phase at every sample.                                    *)
C16_NoWrapIsIdentity ==
  (\A i \in Handled : IAbs(Delta(i)) < PI) =>
    /\ cycles = 0
    /\ \A i \in Handled : cum_phase[i] = phases[i]
    /\ ph_pc = "returned" => ph_ret[1].cum_phase = phases

\* a sequence with two nonzero deltas below pi has been returned
C16_Witness ==
  /\ ph_pc = "returned"
  /\ Len(phases) >= 3
  /\ \A i \in 2 .. Len(phases) : Delta(i) # 0 /\ IAbs(Delta(i)) < PI
  /\ 2 * IAbs(Delta(2)) >= PI
  /\ ph_ret[1].cum_phase = phases

(* C17: for phase_i = (p0 + i*d) wrapped into (-pi, pi] with a constant    *)
(* step 0 < |d| < pi, the unwrapped cumulative phase equals p0 + i*d at    *)
(* every sample: the counter changes by exactly one at each crossing of    *)
(* the +pi/-pi boundary, in the direction of d, and the cumulative phase   *)
(* is monotonic.                                                           *)
C17_RampIsRecovered ==
  \A p0 \in (1 - PI) .. PI, d \in RampSteps :
    phases = WrappedRamp(Len(phases), p0, d) =>
      /\ \A i \in Handled : cum_phase[i] = p0 + (i - 1) * d
      /\ \A i \in Handled : i > 1 =>
           /\ (d > 0 => cum_phase[i] > cum_phase[i - 1])
           /\ (d < 0 => cum_phase[i] < cum_phase[i - 1])
           /\ (cum_phase[i] - phases[i]) - (cum_phase[i - 1] - phases[i - 1])
                = (IF phases[i] - phases[i - 1] = d THEN 0
                   ELSE IF d > 0 THEN 2 * PI ELSE -2 * PI)

\* daisychain's loop has followed a ramp across the boundary twice
C17_Witness ==
  /\ ph_variant = "daisychain"
  /\ ph_pc = "returned"
  /\ \E p0 \in (1 - PI) .. PI, d \in RampSteps : phases = WrappedRamp(Len(phases), p0, d)
  /\ IAbs(cycles) >= 2

-----------------------------------------------------------------------------
(* C20: swsh_summation_angles returns an array indexed [azimuth][time] of  *)
(* shape (n_azimuth, n_times) with result[a][t] = sum over all mode        *)
(* indices k of mode_data[k][t] * sY[k][a]; the result at time t depends   *)
(* only on the modes' samples at time t, is linear in mode_data (if every  *)
(* mode holds the same signal z(t), result[a][t] = z(t) * sum_k sY[k][a]), *)
(* and mode_data is left unmodified.                                       *)

SwModes == 1 .. Len(sw_mode_data)

SwTimes == 1 .. Len(sw_mode_data[1])

SwPts == 1 .. Len(sYlm)

\* sY[k][a] of the claim: the harmonic of mode k at point a
SwHarmonic(k, a) == sYlm[a][k]

RECURSIVE SumOverModes(_, _)
SumOverModes(f(_), k) == IF k = 0 THEN CZero ELSE CAdd(SumOverModes(f, k - 1), f(k))

C20_SuperpositionSum ==
  /\ sw_mode_data = sw_passed
  /\ sw_pc = "returned" =>
       LET result == sw_ret[1]
       IN  /\ Len(result) = Len(sYlm)
           /\ \A a \in SwPts :
                /\ Len(result[a]) = Len(sw_mode_data[1])
                /\ \A t \in SwTimes :
                     LET term(k) == CMul(sw_mode_data[k][t], SwHarmonic(k, a))
                     IN  result[a][t] = SumOverModes(term, Len(sw_mode_data))
                /\ \A t, u \in SwTimes :
                     (\A k \in SwModes : sw_mode_data[k][t] = sw_mode_data[k][u])
                       => result[a][t] = result[a][u]
                /\ (\A k \in SwModes : sw_mode_data[k] = sw_mode_data[1]) =>
                     \A t \in SwTimes :
                       LET weight(k) == SwHarmonic(k, a)
                       IN  result[a][t] =
                             CMul(sw_mode_data[1][t],
                                  SumOverModes(weight, Len(sw_mode_data)))

\* three modes holding different signals were superposed at two points with
\* different harmonics over two times
C20_Witness ==
  /\ sw_pc = "returned"
  /\ Len(sw_mode_data) = 3
  /\ Len(sYlm) = 2
  /\ Len(sw_mode_data[1]) = 2
  /\ sw_mode_data[1] # sw_mode_data[2]
  /\ sYlm[1] # sYlm[2]
  /\ sw_ret[1][1] # sw_ret[1][2]


-----------------------------------------------------------------------------
(* Claims about gen_wave_meshes and psi4_fft_to_strain as a whole          *)

\* the table read_psi4_dir builds from the files of l = lo .. hi
RECURSIVE RowsOfFiles(_, _, _)
RowsOfFiles(lo, hi, data_set) ==
  IF lo > hi THEN <<>>
  ELSE RowsOfFile(lo, data_set) \o RowsOfFiles(lo + 1, hi, data_set)

\* the reader has returned
GwReaderReturned ==
  gw_pc \in {"cutoff", "integrate", "write", "swsh", "mesh", "done", "raised"}

\* the strain arrays have been allocated
GwStrainAllocated == gw_pc \in {"integrate", "write", "swsh", "mesh", "done"}

Shape(table) == [k \in 1 .. Len(table) |-> Len(table[k])]

(* C21: once read_psi4_dir has returned, the psi4 mode table and the time  *)
(* array keep the values the reader returned through every later step      *)
(* (phase unwrapping, FFT filtering, second derivative, file and mesh      *)
(* output); the strain modes live in another array of the same shape as    *)
(* the psi4 table, and fft_result never names the psi4 table or the time   *)
(* array.                                                                  *)
C21_Psi4TableNotMutated ==
  /\ GwReaderReturned =>
       /\ gw_heap["psi4_modes_data"] = RowsOfFiles(ELL_MIN, gw_ell_max, gw_data_set)
       /\ gw_heap["time_arr"] = TimeGrid(GwTimes, gw_dt)
       /\ gw_fft_ref.obj \notin {"psi4_modes_data", "time_arr"}
  /\ GwStrainAllocated =>
       Shape(gw_heap["strain_modes"]) = Shape(gw_heap["psi4_modes_data"])

\* a run has finished with every mode integrated into strain values that
\* differ from the psi4 samples
C21_Witness ==
  /\ gw_pc = "done"
  /\ gw_fft_ref = Whole("fft_result")
  /\ \A k \in 1 .. Len(gw_heap["psi4_modes_data"]) :
       gw_heap["strain_modes"][k] # gw_heap["psi4_modes_data"][k]


IsPrefix(s, t) == Len(s) <= Len(t) /\ \A i \in 1 .. Len(s) : s[i] = t[i]

\* the number of modes of l = ELL_MIN .. ell_max
NumModes(ell_max) == (ell_max + 1) * (ell_max + 1) - ELL_MIN * ELL_MIN

\* the steps of a complete run of gen_wave_meshes, in the claimed order
StagesInOrder(ell_max, n_times) ==
  <<<<"check", 0>>>>
  \o [i \in 1 .. ell_max - ELL_MIN + 1 |-> <<"read", ELL_MIN + i - 1>>]
  \o <<<<"cutoff", 0>>>>
  \o [k \in 1 .. NumModes(ell_max) |-> <<"integrate", k - 1>>]
  \o <<<<"write", 0>>, <<"swsh", 0>>>>
  \o [t \in 1 .. n_times |-> <<"mesh", t - 1>>]

StepsDone(kind) == {i \in 1 .. Len(gw_log) : gw_log[i][1] = kind}

(* C22: in every run of gen_wave_meshes the steps completed so far are a   *)
(* prefix of: every mode file l = ELL_MIN .. ELL_MAX read, the cutoff      *)
(* computed, every mode integrated, the strain file written, the angle     *)
(* superposition, the mesh files.  So no mode is integrated before all     *)
(* files are read, psi4_conv_to_strain.csv exists only once every mode is  *)
(* integrated, and a finished run has done every step.                     *)
C22_StagesInOrder ==
  /\ IsPrefix(gw_log, StagesInOrder(gw_ell_max, GwTimes))
  /\ StepsDone("integrate") # {} =>
       Cardinality(StepsDone("read")) = gw_ell_max - ELL_MIN + 1
  /\ "psi4_conv_to_strain.csv" \in gw_out <=> StepsDone("write") # {}
  /\ "psi4_conv_to_strain.csv" \in gw_out =>
       Cardinality(StepsDone("integrate")) = NumModes(gw_ell_max)
  /\ (\E t \in 0 .. GwTimes - 1 : <<"mesh", t>> \in Range(gw_log)) =>
       StepsDone("swsh") # {}
  /\ gw_pc = "done" => gw_log = StagesInOrder(gw_ell_max, GwTimes)

\* a run over two mode files has written its last mesh
C22_Witness ==
  /\ gw_pc = "done"
  /\ gw_ell_max = ELL_MIN + 1
  /\ Cardinality(StepsDone("read")) = 2
  /\ Cardinality(StepsDone("integrate")) = NumModes(ELL_MIN + 1)
  /\ {<<"state", t>> : t \in 0 .. GwTimes - 1} \subseteq gw_dir


(* C23: when curve_fit raises in intercept_of_quadratic_fit the run ends   *)
(* with that error: no cutoff is assigned (there is no fallback value), no *)
(* mode is integrated, the strain arrays are not even allocated, and       *)
(* psi4_conv_to_strain.csv and the mesh files are not written.             *)
C23_FailedFitAborts ==
  (gw_fit # <<>> /\ gw_fit[1].raised) =>
    /\ gw_pc = "raised"
    /\ gw_exc = "RuntimeError"
    /\ gw_cutoff = <<>>
    /\ StepsDone("integrate") = {}
    /\ gw_heap["strain_modes"] = <<>>
    /\ "psi4_conv_to_strain.csv" \notin gw_out
    /\ StepsDone("mesh") = {}

\* curve_fit has raised on the (2, 2) mode of a table that was read in full
C23_Witness ==
  /\ gw_fit # <<>>
  /\ gw_fit[1].raised
  /\ gw_pc = "raised"
  /\ Len(gw_heap["psi4_modes_data"]) = NumModes(gw_ell_max)


-----------------------------------------------------------------------------
(* C24: files of the output directory are removed only after the user has  *)
(* answered Y or y to the prompt; after any other answer the script has    *)
(* exited and the directory holds exactly the files it held before; the    *)
(* check itself never adds a file.                                         *)
C24_DeleteOnlyAfterYes ==
  /\ od_files \subseteq od_before
  /\ od_files # od_before =>
       od_answer # <<>> /\ od_answer[1] \in {<<"Y">>, <<"y">>}
  /\ (od_answer # <<>> /\ od_answer[1] \notin {<<"Y">>, <<"y">>}) =>
       od_pc = "exited" /\ od_files = od_before
  /\ od_pc = "exited" => od_files = od_before

\* the user answered y for a directory of two or more files and the check
\* returned with the directory emptied
C24_Witness ==
  /\ od_pc = "returned"
  /\ Cardinality(od_before) >= 2
  /\ od_files = {}
  /\ od_answer = <<<<"y">>>>


\* the strain of one mode as a function of that mode's samples, the time
\* array and the cutoff alone: FFT, division by -max(|omega|, |cutoff|)^2
\* bin by bin, inverse FFT
DividedSpectrum(spectrum, freq_list, cutoff) ==
  [i \in 1 .. Len(spectrum) |->
     CMul(spectrum[i], daisychain_factor(freq_list[i], cutoff))]

StrainOfSeries(series, time_arr, cutoff) ==
  np_ifft(DividedSpectrum(np_fft(series), FreqList(time_arr), cutoff))

\* the table obtained by integrating the modes one at a time in the given
\* order of table positions, each written at its own position
RECURSIVE IntegratedInOrder(_, _, _, _, _)
IntegratedInOrder(order, table, psi4, time_arr, cutoff) ==
  IF order = <<>> THEN table
  ELSE IntegratedInOrder(Tail(order),
         [table EXCEPT ![Head(order)] = StrainOfSeries(psi4[Head(order)], time_arr, cutoff)],
         psi4, time_arr, cutoff)

\* orders of the positions 1 .. n other than the loop's: reversed, and the
\* rotations
ModeOrders(n) ==
  {[i \in 1 .. n |-> n + 1 - i]}
  \cup {[i \in 1 .. n |-> ((i - 1 + r) % n) + 1] : r \in 1 .. n - 1}

\* the number of modes the loop has integrated
GwModesDone == IF gw_pc = "integrate" THEN gw_mode_idx ELSE NumModes(gw_ell_max)

TimesWritten(idx) ==
  Cardinality({i \in 1 .. Len(gw_log) : gw_log[i] = <<"integrate", idx>>})

(* C26: at every iteration of the double loop mode_idx equals              *)
(* get_index_from_modes(l, m, ELL_MIN); so for every row k written, the    *)
(* psi4 row k holds the mode (l, m) the reader stored there, label k after *)
(* "time" names that (l, m), and no row is written twice; when the loop    *)
(* has ended mode_idx = (ELL_MAX + 1)^2 - ELL_MIN^2, every row has been    *)
(* written exactly once and holds the strain of its own mode.              *)
C26_ModeIdxIsModeIndex ==
  /\ gw_pc = "integrate" =>
       /\ gw_mode_idx = get_index_from_modes(gw_l, gw_m, ELL_MIN)
       /\ gw_mode_idx < NumModes(gw_ell_max)
  /\ gw_pc \in {"integrate", "write"} =>
       /\ Len(gw_labels) = GwModesDone + 1
       /\ gw_labels[1] = Label("time", 0, 0)
       /\ \A k \in 1 .. GwModesDone :
            /\ gw_labels[k + 1] = Label("mode", ModeAt(k - 1).l, ModeAt(k - 1).m)
            /\ gw_heap["psi4_modes_data"][k]
                 = ModeSeries(ModeAt(k - 1).l, ModeAt(k - 1).m, gw_data_set)
            /\ TimesWritten(k - 1) = 1
       /\ \A k \in GwModesDone + 1 .. NumModes(gw_ell_max) : TimesWritten(k - 1) = 0
  /\ gw_pc = "write" =>
       /\ gw_mode_idx = (gw_ell_max + 1) * (gw_ell_max + 1) - ELL_MIN * ELL_MIN
       /\ \A k \in 1 .. gw_mode_idx :
            gw_heap["strain_modes"][k]
              = StrainOfSeries(ModeSeries(ModeAt(k - 1).l, ModeAt(k - 1).m, gw_data_set),
                               gw_heap["time_arr"], gw_cutoff[1])

\* the loop over l = 2, 3 has ended with mode_idx = 12, the last label
\* naming the mode (3, 3)
C26_Witness ==
  /\ gw_pc = "write"
  /\ gw_ell_max = ELL_MIN + 1
  /\ gw_mode_idx = 12
  /\ gw_labels[13] = Label("mode", 3, 3)


-----------------------------------------------------------------------------
\* the cycle counter that sample i was unwrapped with
CounterAt(i) == (cum_phase[i] - phases[i]) \div (2 * PI)

(* C27: after phase unwrapping two consecutive cumulative-phase samples    *)
(* never differ by more than pi in magnitude, and the cycle counter        *)
(* changes by at most 1 between consecutive samples, for every phase       *)
(* sequence with values in [-pi, pi] (-pi, 0 and pi included), in each     *)
(* unwrap variant.                                                         *)
C27_UnwrappedStepsBounded ==
  \A i \in Handled : i > 1 =>
    /\ IAbs(cum_phase[i] - cum_phase[i - 1]) <= PI
    /\ IAbs(CounterAt(i) - CounterAt(i - 1)) <= 1


\* C27 restricted to the loops of the util scripts and of psi4check
C27_InOtherVariants == ph_variant # "daisychain" => C27_UnwrappedStepsBounded

\* C27's bound on the counter alone
C27_CounterStepsBounded ==
  \A i \in Handled : i > 1 => IAbs(CounterAt(i) - CounterAt(i - 1)) <= 1


-----------------------------------------------------------------------------
\* t - r + r_ext clamped to the range of the time array
RetardedTime(t, r) ==
  LET x == RAdd(RSub(lp_time[t], lp_radius[r]), lp_r_ext)
      lo == SeqMin(lp_time)
      hi == SeqMax(lp_time)
  IN  RMax(lo, IF RLeq(x, hi) THEN x ELSE hi)

\* the claim for one result, read through at(r, t)
LerpPointsAsClaimed(at(_, _)) ==
  \A r \in 1 .. Len(lp_radius), t \in 1 .. Len(lp_time) :
    /\ at(r, t) = RetardedTime(t, r)
    /\ RLeq(SeqMin(lp_time), at(r, t))
    /\ RLeq(at(r, t), SeqMax(lp_time))
    /\ lp_radius[r] = lp_r_ext => at(r, t) = lp_time[t]

-----------------------------------------------------------------------------
(* C29: in the anim loop, for every n_times >= 1 and save_rate >= 1 the    *)
(* run eventually reaches the exit branch: the last frame (the largest     *)
(* multiple of save_rate below n_times) has been saved, convert_to_movie    *)
(* has been called exactly once and the program has exited; the loop never  *)
(* finishes without creating the movie.                                     *)

\* the frame number of the largest multiple of save_rate below n_times
LastFrameNum == (an_n_times - 1) \div save_rate

MovieCreated ==
  /\ an_pc = "exited"
  /\ an_movies = 1
  /\ an_saved = [k \in 1 .. LastFrameNum + 1 |-> k - 1]

C29_MovieEventuallyCreated == <>MovieCreated

\* the run that violates it: the range is exhausted and no movie exists
C29_LoopEndsWithoutMovie == an_pc = "finished" /\ an_movies = 0

\* what does hold: the loop ends without a movie exactly for the inputs with
\* save_rate >= 2 and n_times a multiple of save_rate ...
C29_FinishedOnlyOnMultiples ==
  an_pc = "finished" => save_rate >= 2 /\ an_n_times % save_rate = 0 /\ an_movies = 0

\* ... for every other input the movie is created once, after the last frame
C29_MovieUnlessMultiple ==
  (save_rate = 1 \/ an_n_times % save_rate # 0) => <>MovieCreated

\* ... and the exit branch is never taken early or twice
C29_ExitOnlyAfterLastFrame == an_pc = "exited" => MovieCreated

-----------------------------------------------------------------------------
(* C30: in gen-gw-main.py every access t_array[state] and h_array[state]   *)
(* uses an index within 0 .. len(h_time) - 1 for every non-empty strain     *)
(* file, and every row of t_array has been filled with clamped target times *)
(* before h_array is interpolated from it (no row is left at its zeros).    *)

GmRows == 0 .. Len(gm_h_time) - 1

C30_StateIndexInRange ==
  /\ \A k \in 1 .. Len(gm_access) : gm_access[k].index \in GmRows
  /\ h_array # <<>> => gm_filled = GmRows

\* what does hold: the first loop raises IndexError on the last time sample
\* of every file, so row 0 is never assigned, h_array is never computed and
\* no mesh is written
C30_FirstLoopAlwaysRaises ==
  /\ gm_pc \in {"fill", "raised"}
  /\ 0 \notin gm_filled
  /\ h_array = <<>>
  /\ gm_files = {}
  /\ gm_pc = "raised" => gm_access[Len(gm_access)] = [array |-> "t_array", index |-> Len(gm_h_time)]

=============================================================================
